---- MODULE Spec2Model ----
(***************************************************************************)
(* A model of github.com/a-h/stream: the DynamoDB-backed, event-sourced    *)
(* aggregate store (store.go) and its processor (processor.go).            *)
(*                                                                         *)
(* Strings are sequences of character codes, so that the sort keys the     *)
(* store formats are compared the way DynamoDB compares them (byte by      *)
(* byte) and are split and parsed the way the store splits and parses      *)
(* them.  Attribute values are records named after their DynamoDB type:    *)
(* [S |-> codes], [N |-> decimal digits], [L |-> list], [NULL |-> TRUE].   *)
(***************************************************************************)
EXTENDS Integers, Sequences, FiniteSets, TLC

(***************************************************************************)
(* Bounds of the model.                                                    *)
(***************************************************************************)
\* A write is attempted only at a sequence below MaxSeq, so that no STATE
\* record's _seq exceeds MaxSeq.
MaxSeq == 2
\* Process is called with every list of at most MaxEvents inbound events ...
MaxEvents == 1
\* ... and with one long list of LongLen events (idx reaches two digits).
LongLen == 11
\* A processor is used for at most MaxCalls Process calls before it is replaced.
MaxCalls == 2

\* The failed Process calls counted for one writer.
MaxRetries == 3

\* The longest list of events one Process call of the slot machine is given.
MaxSlotEvents == 3
\* The number of commits of the writer that keeps the state history.
MaxHistory == 10
\* The bridge is given every list of at most MaxRecords stream records ...
MaxRecords == 2
\* ... and lists of these lengths (beyond one and two full batches).
LongCounts == {11, 21}

(***************************************************************************)
(* String literals of the source.                                          *)
(***************************************************************************)
Slash == <<47>>
S_STATE == <<83, 84, 65, 84, 69>>
S_INBOUND == <<73, 78, 66, 79, 85, 78, 68>>
S_OUTBOUND == <<79, 85, 84, 66, 79, 85, 78, 68>>
S_BatchInput == <<66, 97, 116, 99, 104, 73, 110, 112, 117, 116>>
S_BatchOutput == <<66, 97, 116, 99, 104, 79, 117, 116, 112, 117, 116>>
S_InsertCoin == <<73, 110, 115, 101, 114, 116, 67, 111, 105, 110>>
S_PullHandle == <<80, 117, 108, 108, 72, 97, 110, 100, 108, 101>>
S_GamePlayed == <<71, 97, 109, 101, 80, 108, 97, 121, 101, 100>>
S_PayoutMade == <<80, 97, 121, 111, 117, 116, 77, 97, 100, 101>>
\* The namespace and the aggregate id of the processor integration test.
Namespace == <<66, 97, 116, 99, 104>>
Ids == {<<105, 100>>}

(***************************************************************************)
(* strconv.FormatInt(i, 10) and fmt's %d; strconv.ParseInt(s, 10, 64).     *)
(***************************************************************************)
RECURSIVE FormatNat(_)
FormatNat(n) ==
    IF n < 10 THEN <<48 + n>> ELSE FormatNat(n \div 10) \o <<48 + (n % 10)>>

FormatInt(i) == IF i < 0 THEN <<45>> \o FormatNat(0 - i) ELSE FormatNat(i)

RECURSIVE ParseNat(_)
ParseNat(s) ==
    IF s = <<>> THEN 0
    ELSE ParseNat(SubSeq(s, 1, Len(s) - 1)) * 10 + (s[Len(s)] - 48)

ParseInt(s) ==
    LET signed == Len(s) > 0 /\ s[1] \in {43, 45}
        digits == IF signed THEN Tail(s) ELSE s
    IN  IF digits = <<>> \/ \E i \in 1..Len(digits) : digits[i] < 48 \/ digits[i] > 57
        THEN [ok |-> FALSE, v |-> 0]
        ELSE [ok |-> TRUE,
              v |-> IF s[1] = 45 THEN 0 - ParseNat(digits) ELSE ParseNat(digits)]

(***************************************************************************)
(* DynamoDB orders the items of a partition by the bytes of the sort key.  *)
(***************************************************************************)
RECURSIVE StrLess(_, _)
StrLess(a, b) ==
    IF b = <<>> THEN FALSE
    ELSE IF a = <<>> THEN TRUE
    ELSE IF a[1] # b[1] THEN a[1] < b[1]
    ELSE StrLess(Tail(a), Tail(b))

(***************************************************************************)
(* The user's state logic: the BatchState of the README and of the         *)
(* processor tests.  Values = <<>> is Go's nil slice.                      *)
(***************************************************************************)
NewBatchState == [BatchSize |-> 2, BatchesEmitted |-> 0, Values |-> <<>>]

BatchInput(n) == [type |-> "BatchInput", Number |-> n]

BatchOutput(ns) == [type |-> "BatchOutput", Numbers |-> ns]

EventName(e) ==
    IF e.type = "InsertCoin" THEN S_InsertCoin
    ELSE IF e.type = "PullHandle" THEN S_PullHandle
    ELSE IF e.type = "GamePlayed" THEN S_GamePlayed
    ELSE IF e.type = "PayoutMade" THEN S_PayoutMade
    ELSE IF e.type = "BatchInput" THEN S_BatchInput ELSE S_BatchOutput

\* func (s *BatchState) Process(event InboundEvent) (outbound, err)
BatchStateProcess(s, e) ==
    IF e.type = "BatchInput"
    THEN LET values == Append(s.Values, e.Number)
         IN  IF Len(values) >= s.BatchSize
             THEN [state |-> [s EXCEPT !.BatchesEmitted = @ + 1, !.Values = <<>>],
                   outbound |-> <<BatchOutput(values)>>,
                   err |-> "nil"]
             ELSE [state |-> [s EXCEPT !.Values = values],
                   outbound |-> <<>>,
                   err |-> "nil"]
    ELSE [state |-> s, outbound |-> <<>>, err |-> "nil"]

(***************************************************************************)
(* The user's state logic of example/api/models: a slot machine, whose     *)
(* Process returns an error for a coin inserted twice and for a handle     *)
(* pulled without a coin.  The fields ID and WinChance, which no event     *)
(* changes, are left out; the outcome of Win(s.WinChance), a random        *)
(* draw, is carried by the PullHandle event (won).                         *)
(***************************************************************************)
NewSlotMachine ==
    [Balance |-> 0, Payout |-> 4, Games |-> 0, Wins |-> 0, Losses |-> 0,
     IsCoinInSlot |-> FALSE]

InsertCoin == [type |-> "InsertCoin"]

PullHandle(won) == [type |-> "PullHandle", won |-> won]

GamePlayed(won) == [type |-> "GamePlayed", Won |-> won]

PayoutMade(amount) == [type |-> "PayoutMade", Amount |-> amount]

ErrCannotInsertCoin == "cannot insert coin"

ErrCannotPullHandle == "cannot pull handle"

\* func (s *SlotMachine) InsertCoin() (outbound, err)
SlotMachineInsertCoin(s) ==
    IF s.IsCoinInSlot
    THEN [state |-> s, outbound |-> <<>>, err |-> ErrCannotInsertCoin]
    ELSE [state |-> [s EXCEPT !.IsCoinInSlot = TRUE], outbound |-> <<>>, err |-> "nil"]

\* func (s *SlotMachine) PullHandle(e PullHandle) (outbound, err)
SlotMachinePullHandle(s, e) ==
    IF ~s.IsCoinInSlot
    THEN [state |-> s, outbound |-> <<>>, err |-> ErrCannotPullHandle]
    ELSE IF e.won
    THEN [state |-> [s EXCEPT !.IsCoinInSlot = FALSE, !.Games = @ + 1, !.Wins = @ + 1,
                              !.Balance = @ - (s.Payout - 1)],
          outbound |-> <<GamePlayed(TRUE), PayoutMade(s.Payout)>>,
          err |-> "nil"]
    ELSE [state |-> [s EXCEPT !.IsCoinInSlot = FALSE, !.Games = @ + 1, !.Losses = @ + 1,
                              !.Balance = @ + 1],
          outbound |-> <<GamePlayed(FALSE)>>,
          err |-> "nil"]

\* func (s *SlotMachine) Process(event stream.InboundEvent) (outbound, err)
SlotMachineProcess(s, e) ==
    IF e.type = "InsertCoin" THEN SlotMachineInsertCoin(s)
    ELSE IF e.type = "PullHandle" THEN SlotMachinePullHandle(s, e)
    ELSE [state |-> s, outbound |-> <<>>, err |-> "nil"]

\* p.state.Process(event): the Process of the state the processor was given.
StateProcess(s, e) ==
    IF "IsCoinInSlot" \in DOMAIN s THEN SlotMachineProcess(s, e) ELSE BatchStateProcess(s, e)

(***************************************************************************)
(* The codec: attributevalue.MarshalMap and UnmarshalMap on the three      *)
(* types.  An int is an N of its decimal digits, a nil slice is NULL, a    *)
(* slice is an L.                                                          *)
(***************************************************************************)
attributeValueString(v) == [S |-> v]

attributeValueInteger(i) == [N |-> FormatInt(i)]

AvNull == [NULL |-> TRUE]

MarshalInts(values) ==
    IF values = <<>> THEN AvNull
    ELSE [L |-> [i \in 1..Len(values) |-> attributeValueInteger(values[i])]]

attributeValueBool(b) == [BOOL |-> b]

NoAttributes == [name \in {} |-> AvNull]

MarshalMap(v) ==
    IF "IsCoinInSlot" \in DOMAIN v
    THEN [Balance |-> attributeValueInteger(v.Balance),
          Payout |-> attributeValueInteger(v.Payout),
          Games |-> attributeValueInteger(v.Games),
          Wins |-> attributeValueInteger(v.Wins),
          Losses |-> attributeValueInteger(v.Losses),
          IsCoinInSlot |-> attributeValueBool(v.IsCoinInSlot)]
    ELSE IF "BatchSize" \in DOMAIN v
    THEN [BatchSize |-> attributeValueInteger(v.BatchSize),
          BatchesEmitted |-> attributeValueInteger(v.BatchesEmitted),
          Values |-> MarshalInts(v.Values)]
    ELSE IF v.type \in {"InsertCoin", "PullHandle"}
    THEN NoAttributes
    ELSE IF v.type = "GamePlayed"
    THEN [Won |-> attributeValueBool(v.Won)]
    ELSE IF v.type = "PayoutMade"
    THEN [Amount |-> attributeValueInteger(v.Amount)]
    ELSE IF v.type = "BatchInput"
    THEN [Number |-> attributeValueInteger(v.Number)]
    ELSE [Numbers |-> MarshalInts(v.Numbers)]

\* An attribute decoded into an int field: [ok, v].
UnmarshalInt(av) ==
    IF "N" \in DOMAIN av THEN ParseInt(av.N)
    ELSE IF "NULL" \in DOMAIN av THEN [ok |-> TRUE, v |-> 0]
    ELSE [ok |-> FALSE, v |-> 0]

\* An attribute decoded into an []int field: [ok, v].
UnmarshalInts(av) ==
    IF "NULL" \in DOMAIN av THEN [ok |-> TRUE, v |-> <<>>]
    ELSE IF "L" \in DOMAIN av
    THEN [ok |-> \A i \in 1..Len(av.L) : UnmarshalInt(av.L[i]).ok,
          v |-> [i \in 1..Len(av.L) |-> UnmarshalInt(av.L[i]).v]]
    ELSE [ok |-> FALSE, v |-> <<>>]

\* An int field of the map; a missing key leaves the zero value.
IntField(m, name) ==
    IF name \in DOMAIN m THEN UnmarshalInt(m[name]) ELSE [ok |-> TRUE, v |-> 0]

\* An []int field of the map; a missing key leaves the zero value.
IntsField(m, name) ==
    IF name \in DOMAIN m THEN UnmarshalInts(m[name]) ELSE [ok |-> TRUE, v |-> <<>>]

\* attributevalue.UnmarshalMap(item, state) for a *BatchState: [ok, v].
UnmarshalState(m) ==
    LET size == IntField(m, "BatchSize")
        emitted == IntField(m, "BatchesEmitted")
        values == IntsField(m, "Values")
    IN  [ok |-> size.ok /\ emitted.ok /\ values.ok,
         v |-> [BatchSize |-> size.v, BatchesEmitted |-> emitted.v, Values |-> values.v]]

\* The reader registered for BatchInput: UnmarshalMap(item, &event).
UnmarshalBatchInput(m) ==
    LET number == IntField(m, "Number")
    IN  [ok |-> number.ok, v |-> BatchInput(number.v)]

\* The reader registered for BatchOutput: UnmarshalMap(item, &event).
UnmarshalBatchOutput(m) ==
    LET numbers == IntsField(m, "Numbers")
    IN  [ok |-> numbers.ok, v |-> BatchOutput(numbers.v)]

(***************************************************************************)
(* store.go: keys, records and the items of the transactional write.       *)
(* An item is [pk, sk, namespace, seq, typ, body]: the metadata columns    *)
(* _pk, _sk, _namespace, _seq, _typ and the user's fields (body).  The     *)
(* clock columns _ts and _date are left out: nothing reads them.           *)
(***************************************************************************)
createPartitionKey(id) == Namespace \o Slash \o id

createStateRecordSortKey == S_STATE

\* The snapshot's sort key numbered with the sequence it replaces.
createVersionedRecordSortKeyPrevious(atSequence) ==
    S_STATE \o Slash \o FormatInt(atSequence - 1)

createVersionedRecordSortKey(atSequence) == S_STATE \o Slash \o FormatInt(atSequence)

\* The inbound sort key with the event's name first and no sequence in it.
createInboundRecordSortKeyByName(typeName, sequence, index) ==
    S_INBOUND \o Slash \o typeName \o Slash \o FormatInt(index)

createInboundRecordSortKey(typeName, sequence, index) ==
    S_INBOUND \o Slash \o FormatInt(sequence) \o Slash \o FormatInt(index)
        \o Slash \o typeName

createOutboundRecordSortKey(typeName, sequence, index) ==
    S_OUTBOUND \o Slash \o FormatInt(sequence) \o Slash \o FormatInt(index)
        \o Slash \o typeName

\* createRecord writing the namespace as the _typ of every record.
createRecordTypedByNamespace(id, sk, sequence, item, recordName) ==
    [body |-> MarshalMap(item),
     namespace |-> attributeValueString(Namespace),
     pk |-> attributeValueString(createPartitionKey(id)),
     seq |-> attributeValueInteger(sequence),
     sk |-> attributeValueString(sk),
     typ |-> attributeValueString(Namespace)]

createRecord(id, sk, sequence, item, recordName) ==
    [body |-> MarshalMap(item),
     namespace |-> attributeValueString(Namespace),
     pk |-> attributeValueString(createPartitionKey(id)),
     seq |-> attributeValueInteger(sequence),
     sk |-> attributeValueString(sk),
     typ |-> attributeValueString(recordName)]

CondNotExists == "attribute_not_exists(#_pk)"

CondNotExistsOrSeq == "attribute_not_exists(#_pk) OR #_seq = :_seq"

createPut(item) ==
    [Item |-> item,
     ConditionExpression |-> CondNotExists,
     ExpressionAttributeValues |-> AvNull]

\* The state item with the condition comparing _seq to the sequence being
\* written instead of the one it replaces.
createStateTransactWriteItemSameSeq(id, atSequence, state, key) ==
    [Item |-> createRecord(id, key, atSequence, state, Namespace),
     ConditionExpression |-> CondNotExistsOrSeq,
     ExpressionAttributeValues |-> attributeValueInteger(atSequence)]

createStateTransactWriteItem(id, atSequence, state, key) ==
    [Item |-> createRecord(id, key, atSequence, state, Namespace),
     ConditionExpression |-> CondNotExistsOrSeq,
     ExpressionAttributeValues |-> attributeValueInteger(atSequence - 1)]

createStateTransactWriteItems(id, atSequence, state, persistHistory) ==
    <<createStateTransactWriteItem(id, atSequence, state, createStateRecordSortKey)>>
    \o (IF persistHistory
        THEN <<createStateTransactWriteItem(id, atSequence, state,
                                            createVersionedRecordSortKey(atSequence))>>
        ELSE <<>>)

\* The inbound items with the sequence advanced once per event.
createInboundTransactWriteItemsPerEvent(id, atSequence, inbound) ==
    [i \in 1..Len(inbound) |->
        createPut(createRecord(id,
                               createInboundRecordSortKey(EventName(inbound[i]),
                                                          atSequence + i, i - 1),
                               atSequence + i, inbound[i], EventName(inbound[i])))]

\* The inbound items with idx counted from 1.
createInboundTransactWriteItemsFromOne(id, atSequence, inbound) ==
    [i \in 1..Len(inbound) |->
        createPut(createRecord(id,
                               createInboundRecordSortKey(EventName(inbound[i]),
                                                          atSequence, i),
                               atSequence, inbound[i], EventName(inbound[i])))]

\* Go's inbound[i], i = 0 .. len-1, is inbound[i + 1] here.
createInboundTransactWriteItems(id, atSequence, inbound) ==
    [i \in 1..Len(inbound) |->
        createPut(createRecord(id,
                               createInboundRecordSortKey(EventName(inbound[i]),
                                                          atSequence, i - 1),
                               atSequence, inbound[i], EventName(inbound[i])))]

createOutboundTransactWriteItems(id, atSequence, outbound) ==
    [i \in 1..Len(outbound) |->
        createPut(createRecord(id,
                               createOutboundRecordSortKey(EventName(outbound[i]),
                                                           atSequence, i - 1),
                               atSequence, outbound[i], EventName(outbound[i])))]

\* Put's items without the outbound events.
PutItemsWithoutOutbound(id, atSequence, state, inbound, outbound, persistHistory) ==
    createStateTransactWriteItems(id, atSequence + 1, state, persistHistory)
    \o createInboundTransactWriteItems(id, atSequence + 1, inbound)

\* Put's items, none when there is no event to record.
PutItemsOnlyWithEvents(id, atSequence, state, inbound, outbound, persistHistory) ==
    IF inbound = <<>> /\ outbound = <<>>
    THEN <<>>
    ELSE createStateTransactWriteItems(id, atSequence + 1, state, persistHistory)
         \o createInboundTransactWriteItems(id, atSequence + 1, inbound)
         \o createOutboundTransactWriteItems(id, atSequence + 1, outbound)

\* Put, up to the request: atSequence++ and the items, state first.
PutItems(id, atSequence, state, inbound, outbound, persistHistory) ==
    createStateTransactWriteItems(id, atSequence + 1, state, persistHistory)
    \o createInboundTransactWriteItems(id, atSequence + 1, inbound)
    \o createOutboundTransactWriteItems(id, atSequence + 1, outbound)

(***************************************************************************)
(* DynamoDB's TransactWriteItems on a table (a set of items, one per       *)
(* key): every condition is evaluated against the table as it is, and      *)
(* either every item is put or none is.                                    *)
(***************************************************************************)
KeyOf(item) == <<item.pk, item.sk>>

ItemsAt(tbl, key) == {r \in tbl : KeyOf(r) = key}

\* Items put without a condition expression.
ConditionHoldsAlways(tbl, twi) == TRUE

ConditionHolds(tbl, twi) ==
    LET existing == ItemsAt(tbl, KeyOf(twi.Item))
    IN  IF twi.ConditionExpression = CondNotExists
        THEN existing = {}
        ELSE \/ existing = {}
             \/ \E r \in existing :
                    ParseInt(r.seq.N).v = ParseInt(twi.ExpressionAttributeValues.N).v

\* One conditional put per item instead of a transaction: every item whose
\* own condition holds is written, whatever happens to the others.
TransactWriteItemsPiecewise(tbl, items) ==
    LET n == Len(items)
        done == {i \in 1..n : ConditionHolds(tbl, items[i])}
        keys == {KeyOf(items[i].Item) : i \in done}
    IN  [err |-> IF done = 1..n THEN "nil" ELSE "TransactionCanceledException",
         reasons |-> [i \in 1..n |-> IF i \in done THEN "None"
                                     ELSE "ConditionalCheckFailed"],
         table |-> {r \in tbl : KeyOf(r) \notin keys}
                   \cup {items[i].Item : i \in done}]

TransactWriteItems(tbl, items) ==
    LET n == Len(items)
        keys == {KeyOf(items[i].Item) : i \in 1..n}
    IN  IF \E i, j \in 1..n : i # j /\ KeyOf(items[i].Item) = KeyOf(items[j].Item)
        THEN [err |-> "ValidationException", reasons |-> <<>>, table |-> tbl]
        ELSE IF \E i \in 1..n : ~ConditionHolds(tbl, items[i])
        THEN [err |-> "TransactionCanceledException",
              reasons |-> [i \in 1..n |-> IF ConditionHolds(tbl, items[i])
                                          THEN "None"
                                          ELSE "ConditionalCheckFailed"],
              table |-> tbl]
        ELSE [err |-> "nil",
              reasons |-> <<>>,
              table |-> {r \in tbl : KeyOf(r) \notin keys}
                        \cup {items[i].Item : i \in 1..n}]

\* Put, from the request on, returning the database's error as it is.
ExecuteItemsUntranslated(tbl, items, requestOk) ==
    IF ~requestOk
    THEN [err |-> "RequestError", table |-> tbl]
    ELSE LET r == TransactWriteItems(tbl, items)
         IN  [err |-> r.err, table |-> r.table]

\* Every cancelled transaction reported as a conflict of versions.
PutErrorAnyCancellation(answer) ==
    IF answer.err = "TransactionCanceledException"
    THEN "ErrOptimisticConcurrency"
    ELSE answer.err

\* The error Put returns for the answer of TransactWriteItems: a
\* cancellation with a ConditionalCheckFailed reason becomes
\* ErrOptimisticConcurrency, everything else is returned as it is.
PutError(answer) ==
    IF /\ answer.err = "TransactionCanceledException"
       /\ \E i \in 1..Len(answer.reasons) :
              answer.reasons[i] = "ConditionalCheckFailed"
    THEN "ErrOptimisticConcurrency"
    ELSE answer.err

\* Put, from the request on.  requestOk = FALSE: the request fails before
\* the database decides anything (no connection, throttling), and nothing
\* is written.
ExecuteItems(tbl, items, requestOk) ==
    IF ~requestOk
    THEN [err |-> "RequestError", table |-> tbl]
    ELSE LET r == TransactWriteItems(tbl, items)
         IN  [err |-> PutError(r), table |-> r.table]

\* Put sending the request a second time when the first one failed.
ExecuteAnsweredRetrying(answers) ==
    IF answers[1].err = "nil"
    THEN [err |-> PutError(answers[1]), table |-> answers[1].table, requests |-> 1]
    ELSE [err |-> PutError(answers[2]), table |-> answers[2].table, requests |-> 2]

\* Put, from the request on, with what the database answers to a first
\* and to a second request: TransactWriteItems is called once, and its
\* answer decides what Put returns.
ExecuteAnswered(answers) ==
    [err |-> PutError(answers[1]), table |-> answers[1].table, requests |-> 1]

\* func (ddb *DynamoDBStore) Put(id, atSequence, state, inbound, outbound) error
Put(tbl, id, atSequence, state, inbound, outbound, persistHistory, requestOk) ==
    ExecuteItems(tbl,
                 PutItems(id, atSequence, state, inbound, outbound, persistHistory),
                 requestOk)

(***************************************************************************)
(* store.go: reading.                                                      *)
(***************************************************************************)
getRecordSequenceNumber(r) ==
    IF "seq" \notin DOMAIN r
    THEN [err |-> "missing _seq field in record", v |-> 0]
    ELSE IF "N" \notin DOMAIN r.seq
    THEN [err |-> "null _seq field in record", v |-> 0]
    ELSE IF ~ParseInt(r.seq.N).ok
    THEN [err |-> "invalid _seq field in record", v |-> 0]
    ELSE [err |-> "nil", v |-> ParseInt(r.seq.N).v]

getRecordType(r) ==
    IF "typ" \notin DOMAIN r
    THEN [err |-> "missing _typ field in record", v |-> <<>>]
    ELSE IF "S" \notin DOMAIN r.typ
    THEN [err |-> "null _typ field in record", v |-> <<>>]
    ELSE [err |-> "nil", v |-> r.typ.S]

\* strings.SplitN(sk, "/", 2)
splitSortKey(item) ==
    IF "sk" \notin DOMAIN item \/ "S" \notin DOMAIN item.sk
    THEN [prefix |-> <<>>, suffix |-> <<>>]
    ELSE LET sk == item.sk.S
             at == {i \in 1..Len(sk) : sk[i] = Slash[1]}
         IN  IF at = {}
             THEN [prefix |-> sk, suffix |-> <<>>]
             ELSE LET i == CHOOSE x \in at : \A y \in at : x <= y
                  IN  [prefix |-> SubSeq(sk, 1, i - 1),
                       suffix |-> SubSeq(sk, i + 1, Len(sk))]

\* A state argument is the record of a BatchState's fields when the caller
\* passes a *BatchState, and ByValue of it when the caller passes a BatchState:
\* IsPtr is reflect.ValueOf(state).Kind() == reflect.Ptr.
ByValue(s) == [value |-> s]

\* No check of the state argument's kind.
IsPtrUnchecked(state) == TRUE

IsPtr(state) == "value" \notin DOMAIN state

MustBePointer == "the state parameter must be a pointer"

\* Get answering a missing STATE record like a new aggregate's.
GetMissingAsNew(tbl, id, state) ==
    LET found == ItemsAt(tbl, <<attributeValueString(createPartitionKey(id)),
                                attributeValueString(createStateRecordSortKey)>>)
    IN  IF ~IsPtr(state)
        THEN [err |-> MustBePointer, sequence |-> 0, state |-> state]
        ELSE IF found = {}
        THEN [err |-> "nil", sequence |-> 0, state |-> state]
        ELSE LET item == CHOOSE r \in found : TRUE
                 u == UnmarshalState(item.body)
                 q == getRecordSequenceNumber(item)
             IN  IF ~u.ok
                 THEN [err |-> "unmarshal", sequence |-> 0, state |-> state]
                 ELSE [err |-> q.err, sequence |-> q.v, state |-> u.v]

\* Get decoding the state and leaving the sequence at 0.
GetWithoutSequence(tbl, id, state) ==
    LET found == ItemsAt(tbl, <<attributeValueString(createPartitionKey(id)),
                                attributeValueString(createStateRecordSortKey)>>)
    IN  IF ~IsPtr(state)
        THEN [err |-> MustBePointer, sequence |-> 0, state |-> state]
        ELSE IF found = {}
        THEN [err |-> "ErrStateNotFound", sequence |-> 0, state |-> state]
        ELSE LET item == CHOOSE r \in found : TRUE
                 u == UnmarshalState(item.body)
             IN  IF ~u.ok
                 THEN [err |-> "unmarshal", sequence |-> 0, state |-> state]
                 ELSE [err |-> "nil", sequence |-> 0, state |-> u.v]

\* func (ddb *DynamoDBStore) Get(id, state) (sequence, err); state is what the
\* caller's pointer holds before the call.
Get(tbl, id, state) ==
    LET found == ItemsAt(tbl, <<attributeValueString(createPartitionKey(id)),
                                attributeValueString(createStateRecordSortKey)>>)
    IN  IF ~IsPtr(state)
        THEN [err |-> MustBePointer, sequence |-> 0, state |-> state]
        ELSE IF found = {}
        THEN [err |-> "ErrStateNotFound", sequence |-> 0, state |-> state]
        ELSE LET item == CHOOSE r \in found : TRUE
                 u == UnmarshalState(item.body)
                 q == getRecordSequenceNumber(item)
             IN  IF ~u.ok
                 THEN [err |-> "unmarshal", sequence |-> 0, state |-> state]
                 ELSE [err |-> q.err, sequence |-> q.v, state |-> u.v]

\* The readers the caller registers before Query: one per event name.  An
\* InboundEventReader or OutboundEventReader is the set of the event names it
\* has a reader for.
InboundReaders == {S_BatchInput}

OutboundReaders == {S_BatchOutput}

\* The items of the partition in the order the Query pages return them.
RECURSIVE SortBySortKey(_)
SortBySortKey(items) ==
    IF items = {} THEN <<>>
    ELSE LET first == CHOOSE x \in items :
                          \A y \in items \ {x} : StrLess(x.sk.S, y.sk.S)
         IN  <<first>> \o SortBySortKey(items \ {first})

QueryItems(tbl, id) ==
    SortBySortKey({r \in tbl : r.pk = attributeValueString(createPartitionKey(id))})

\* The reader Query passes returning an error for every item.
StateHistoryReadRefusing(stateHistoryReader, r) ==
    IF stateHistoryReader = "noop" THEN [ok |-> FALSE, v |-> [nil |-> TRUE]]
    ELSE UnmarshalState(r.body)

\* The state-history reader of the integration test decodes a *BatchState (a
\* BatchState here); the one Query passes returns (nil, nil) for every item.
StateHistoryRead(stateHistoryReader, r) ==
    IF stateHistoryReader = "noop" THEN [ok |-> TRUE, v |-> [nil |-> TRUE]]
    ELSE UnmarshalState(r.body)

\* The pager's loop body skipping the events it has no reader for.
PagerItemSkipping(acc, r, inboundEventReader, outboundEventReader, stateHistoryReader) ==
    LET key == splitSortKey(r)
    IN  IF key.prefix = S_STATE
        THEN IF key.suffix = <<>>
             THEN LET u == UnmarshalState(r.body)
                      q == getRecordSequenceNumber(r)
                  IN  IF ~u.ok
                      THEN [acc EXCEPT !.found = TRUE, !.err = "unmarshal"]
                      ELSE IF q.err # "nil"
                      THEN [acc EXCEPT !.found = TRUE, !.state = u.v, !.err = q.err]
                      ELSE [acc EXCEPT !.found = TRUE, !.state = u.v,
                                       !.sequence = q.v]
             ELSE LET u == StateHistoryRead(stateHistoryReader, r)
                  IN  IF ~u.ok
                      THEN [acc EXCEPT !.err = "unmarshal"]
                      ELSE [acc EXCEPT !.stateHistory = Append(@, u.v)]
        ELSE IF key.prefix = S_INBOUND
        THEN LET typ == getRecordType(r)
                 e == UnmarshalBatchInput(r.body)
             IN  IF typ.err # "nil" THEN [acc EXCEPT !.err = typ.err]
                 ELSE IF typ.v \notin inboundEventReader
                 THEN acc
                 ELSE IF ~e.ok THEN [acc EXCEPT !.err = "unmarshal"]
                 ELSE [acc EXCEPT !.inbound = Append(@, e.v)]
        ELSE IF key.prefix = S_OUTBOUND
        THEN LET typ == getRecordType(r)
                 e == UnmarshalBatchOutput(r.body)
             IN  IF typ.err # "nil" THEN [acc EXCEPT !.err = typ.err]
                 ELSE IF typ.v \notin outboundEventReader
                 THEN acc
                 ELSE IF ~e.ok THEN [acc EXCEPT !.err = "unmarshal"]
                 ELSE [acc EXCEPT !.outbound = Append(@, e.v)]
        ELSE acc

\* The body of the pager's loop for one item r.
PagerItem(acc, r, inboundEventReader, outboundEventReader, stateHistoryReader) ==
    LET key == splitSortKey(r)
    IN  IF key.prefix = S_STATE
        THEN IF key.suffix = <<>>
             THEN LET u == UnmarshalState(r.body)
                      q == getRecordSequenceNumber(r)
                  IN  IF ~u.ok
                      THEN [acc EXCEPT !.found = TRUE, !.err = "unmarshal"]
                      ELSE IF q.err # "nil"
                      THEN [acc EXCEPT !.found = TRUE, !.state = u.v, !.err = q.err]
                      ELSE [acc EXCEPT !.found = TRUE, !.state = u.v,
                                       !.sequence = q.v]
             ELSE LET u == StateHistoryRead(stateHistoryReader, r)
                  IN  IF ~u.ok
                      THEN [acc EXCEPT !.err = "unmarshal"]
                      ELSE [acc EXCEPT !.stateHistory = Append(@, u.v)]
        ELSE IF key.prefix = S_INBOUND
        THEN LET typ == getRecordType(r)
                 e == UnmarshalBatchInput(r.body)
             IN  IF typ.err # "nil" THEN [acc EXCEPT !.err = typ.err]
                 ELSE IF typ.v \notin inboundEventReader
                 THEN [acc EXCEPT !.err = "inbound event: no reader"]
                 ELSE IF ~e.ok THEN [acc EXCEPT !.err = "unmarshal"]
                 ELSE [acc EXCEPT !.inbound = Append(@, e.v)]
        ELSE IF key.prefix = S_OUTBOUND
        THEN LET typ == getRecordType(r)
                 e == UnmarshalBatchOutput(r.body)
             IN  IF typ.err # "nil" THEN [acc EXCEPT !.err = typ.err]
                 ELSE IF typ.v \notin outboundEventReader
                 THEN [acc EXCEPT !.err = "outbound event: no reader"]
                 ELSE IF ~e.ok THEN [acc EXCEPT !.err = "unmarshal"]
                 ELSE [acc EXCEPT !.outbound = Append(@, e.v)]
        ELSE acc

\* The pager over the items in order; it stops at the first error.
RECURSIVE Pager(_, _, _, _, _)
Pager(acc, items, inboundEventReader, outboundEventReader, stateHistoryReader) ==
    IF items = <<>> \/ acc.err # "nil" THEN acc
    ELSE Pager(PagerItem(acc, Head(items), inboundEventReader, outboundEventReader,
                         stateHistoryReader),
               Tail(items), inboundEventReader, outboundEventReader,
               stateHistoryReader)

\* func (ddb *DynamoDBStore) QueryWithHistory(id, state, readers...)
\* QueryWithHistory returning what the pager gathered whether or not it found
\* the STATE record.
QueryWithHistoryUnchecked(tbl, id, state, inboundEventReader, outboundEventReader, stateHistoryReader) ==
    LET none == [found |-> FALSE, sequence |-> 0, state |-> state,
                 inbound |-> <<>>, outbound |-> <<>>, stateHistory |-> <<>>,
                 err |-> "nil"]
        acc == Pager(none, QueryItems(tbl, id), inboundEventReader,
                     outboundEventReader, stateHistoryReader)
    IN  IF ~IsPtr(state)
        THEN [none EXCEPT !.err = MustBePointer]
        ELSE acc

QueryWithHistory(tbl, id, state, inboundEventReader, outboundEventReader, stateHistoryReader) ==
    LET none == [found |-> FALSE, sequence |-> 0, state |-> state,
                 inbound |-> <<>>, outbound |-> <<>>, stateHistory |-> <<>>,
                 err |-> "nil"]
        acc == Pager(none, QueryItems(tbl, id), inboundEventReader,
                     outboundEventReader, stateHistoryReader)
    IN  IF ~IsPtr(state)
        THEN [none EXCEPT !.err = MustBePointer]
        ELSE IF acc.err = "nil" /\ ~acc.found
        THEN [acc EXCEPT !.err = "ErrStateNotFound"]
        ELSE acc

\* func (ddb *DynamoDBStore) Query(id, state, readers...): the history is dropped.
Query(tbl, id, state, inboundEventReader, outboundEventReader) ==
    [QueryWithHistory(tbl, id, state, inboundEventReader, outboundEventReader,
                      "noop") EXCEPT !.stateHistory = <<>>]

(***************************************************************************)
(* processor.go.  The Store the processor writes through is the store      *)
(* above.  store.go has no Prepare and no Execute; they are taken to be    *)
(* the two halves of Put (the specification has Process commit through     *)
(* Put): Prepare builds the items of a Put and Execute sends them.         *)
(***************************************************************************)
StorePrepare(id, atSequence, state, inbound, outbound, persistHistory) ==
    PutItems(id, atSequence, state, inbound, outbound, persistHistory)

StoreExecute(tbl, items, requestOk) == ExecuteItems(tbl, items, requestOk)

StoreExecuteAnswered(answers) == ExecuteAnswered(answers)

\* The loop of Prepare with each event's outbound events put in front of
\* those gathered so far.
RECURSIVE RunEventsPrepending(_, _, _)
RunEventsPrepending(state, events, outbound) ==
    IF events = <<>> THEN [state |-> state, outbound |-> outbound, err |-> "nil"]
    ELSE LET r == StateProcess(state, Head(events))
         IN  IF r.err # "nil"
             THEN [state |-> r.state, outbound |-> outbound, err |-> r.err]
             ELSE RunEventsPrepending(r.state, Tail(events), r.outbound \o outbound)

\* The loop of Prepare going on to the next event after an error of the
\* user logic, and returning no error.
RECURSIVE RunEventsIgnoringErrors(_, _, _)
RunEventsIgnoringErrors(state, events, outbound) ==
    IF events = <<>> THEN [state |-> state, outbound |-> outbound, err |-> "nil"]
    ELSE LET r == StateProcess(state, Head(events))
         IN  RunEventsIgnoringErrors(r.state, Tail(events), outbound \o r.outbound)

\* The loop of Prepare: the state is changed in place, event by event, and
\* the loop ends at the first error.
RECURSIVE RunEvents(_, _, _)
RunEvents(state, events, outbound) ==
    IF events = <<>> THEN [state |-> state, outbound |-> outbound, err |-> "nil"]
    ELSE LET r == StateProcess(state, Head(events))
         IN  IF r.err # "nil"
             THEN [state |-> r.state, outbound |-> outbound, err |-> r.err]
             ELSE RunEvents(r.state, Tail(events), outbound \o r.outbound)

\* func (p *Processor) Prepare(events ...InboundEvent) (items, err)
Prepare(proc, events, persistHistory) ==
    LET run == RunEvents(proc.state, events, <<>>)
    IN  [state |-> run.state,
         outbound |-> run.outbound,
         err |-> run.err,
         items |-> IF run.err # "nil" THEN <<>>
                   ELSE StorePrepare(proc.id, proc.sequence, run.state, events,
                                     run.outbound, persistHistory)]

(***************************************************************************)
(* handler/handler.go: the outbound bridge, a consumer of the table's      *)
(* change stream.  The new image of a stream record is a record with the   *)
(* attributes _pk, _sk and _typ it has (has) and, for the attributes whose *)
(* name does not begin with "_", the length of their JSON text             *)
(* (detailLen): the bridge's batching depends on the JSON only through     *)
(* its length.                                                             *)
(***************************************************************************)
eventBusName == <<98, 117, 115>>

eventSourceName == <<115, 114, 99>>

maxBatchSizeKB == 256 * 1024

maxCount == 10

S_OUTBOUND_Slash == S_OUTBOUND \o Slash

HasPrefix(str, prefix) ==
    Len(str) >= Len(prefix) /\ SubSeq(str, 1, Len(prefix)) = prefix

\* createOutboundEvent making an entry of every record that has _pk, _sk
\* and _typ, whatever its _sk.
createOutboundEventOfAnyKind(r) ==
    IF "_pk" \notin r.has THEN [nil |-> TRUE]
    ELSE IF "_sk" \notin r.has THEN [nil |-> TRUE]
    ELSE IF "_typ" \notin r.has THEN [nil |-> TRUE]
    ELSE [DetailType |-> r.typ,
          EventBusName |-> eventBusName,
          Source |-> eventSourceName,
          Detail |-> [len |-> r.detailLen],
          Time |-> [nil |-> TRUE],
          Resources |-> <<>>]

\* func createOutboundEvent(r) (id, eventType, e, err); e = nil is
\* [nil |-> TRUE].
createOutboundEvent(r) ==
    IF "_pk" \notin r.has THEN [nil |-> TRUE]
    ELSE IF "_sk" \notin r.has THEN [nil |-> TRUE]
    ELSE IF ~HasPrefix(r.sk, S_OUTBOUND_Slash) THEN [nil |-> TRUE]
    ELSE IF "_typ" \notin r.has THEN [nil |-> TRUE]
    ELSE [DetailType |-> r.typ,
          EventBusName |-> eventBusName,
          Source |-> eventSourceName,
          Detail |-> [len |-> r.detailLen],
          Time |-> [nil |-> TRUE],
          Resources |-> <<>>]

\* The first loop of HandleRequest.
RECURSIVE OutboundEventsOf(_)
OutboundEventsOf(records) ==
    IF records = <<>> THEN <<>>
    ELSE LET e == createOutboundEvent(Head(records))
         IN  (IF "nil" \in DOMAIN e THEN <<>> ELSE <<e>>) \o OutboundEventsOf(Tail(records))

RECURSIVE SumLen(_)
SumLen(strs) == IF strs = <<>> THEN 0 ELSE Len(Head(strs)) + SumLen(Tail(strs))

\* func getSize(entry types.PutEventsRequestEntry) (size int)
getSize(entry) ==
    (IF "nil" \in DOMAIN entry.Time THEN 0 ELSE 14)
    + Len(entry.Source)
    + Len(entry.DetailType)
    + (IF "nil" \in DOMAIN entry.Detail THEN 0 ELSE entry.Detail.len)
    + SumLen(entry.Resources)

\* The loop of batch closing a batch only when it has maxCount entries.
RECURSIVE BatchLoopByCount(_, _, _)
BatchLoopByCount(values, i, st) ==
    IF i >= Len(values) THEN st
    ELSE LET size == getSize(values[i + 1])
         IN  IF size > maxBatchSizeKB
             THEN [st EXCEPT !.err = "invalid PutEventRequestEntry"]
             ELSE LET flush == i - st.batchFrom = maxCount
                      flushed == IF flush
                                 THEN [st EXCEPT !.pages = Append(@, SubSeq(values, st.batchFrom + 1, i)),
                                                 !.batchFrom = i,
                                                 !.batchSize = 0]
                                 ELSE st
                  IN  BatchLoopByCount(values, i + 1, [flushed EXCEPT !.batchSize = @ + size])

\* The loop of batch from index i (0-based) on; st holds pages, batchFrom,
\* batchSize and err.
RECURSIVE BatchLoop(_, _, _)
BatchLoop(values, i, st) ==
    IF i >= Len(values) THEN st
    ELSE LET size == getSize(values[i + 1])
         IN  IF size > maxBatchSizeKB
             THEN [st EXCEPT !.err = "invalid PutEventRequestEntry"]
             ELSE LET flush == st.batchSize + size >= maxBatchSizeKB \/ i - st.batchFrom = maxCount
                      flushed == IF flush
                                 THEN [st EXCEPT !.pages = Append(@, SubSeq(values, st.batchFrom + 1, i)),
                                                 !.batchFrom = i,
                                                 !.batchSize = 0]
                                 ELSE st
                  IN  BatchLoop(values, i + 1, [flushed EXCEPT !.batchSize = @ + size])

\* batch without the batch of the entries left over after the loop.
batchWithoutRest(values) ==
    LET st == BatchLoop(values, 0, [pages |-> <<>>, batchFrom |-> 0, batchSize |-> 0, err |-> "nil"])
    IN  [pages |-> st.pages, err |-> st.err]

\* func batch(values []types.PutEventsRequestEntry) (pages, err)
batch(values) ==
    LET st == BatchLoop(values, 0, [pages |-> <<>>, batchFrom |-> 0, batchSize |-> 0, err |-> "nil"])
    IN  IF st.err # "nil" THEN [pages |-> st.pages, err |-> st.err]
        ELSE IF st.batchFrom < Len(values)
        THEN [pages |-> Append(st.pages, SubSeq(values, st.batchFrom + 1, Len(values))), err |-> "nil"]
        ELSE [pages |-> st.pages, err |-> "nil"]

\* HandleRequest before it is called.  sent[i] is what the goroutine of
\* batch i has got from PutEvents ("-" while it has not returned), calls
\* the number of calls of PutEvents made.
NoBridge ==
    [pc |-> "idle", records |-> <<>>, batches |-> <<>>, sent |-> <<>>,
     calls |-> 0, result |-> "-"]

(***************************************************************************)
(* The state machine: one table, one store and its callers.  Spec is two    *)
(* callers, each with a processor of its own.                              *)
(***************************************************************************)
VARIABLES
    table,       \* the DynamoDB table: a set of items
    persist,     \* the store's PersistStateHistory option
    procs,       \* the Processor each caller holds, if any, and what it did
    commits,     \* per id, the commits the database accepted, in order
    last,        \* the call made last, what it was given and what it returned
    bridge       \* the outbound bridge's HandleRequest: where it is and what it did

vars == <<table, persist, procs, commits, last, bridge>>

Procs == {"p1", "p2"}

Numbers == {1, 2}

\* A processor's fields (id, state, sequence) and, beside them, what was done
\* with it: which constructor made it (by), the number of Process calls made
\* on it (calls), the result of the first of them (first), the STATE _seq the
\* aggregate had when that call began (seen) and the table as that call left
\* it when it succeeded (left).
NoProc ==
    [live |-> FALSE, id |-> <<>>, state |-> NewBatchState, sequence |-> 0,
     by |-> "-", calls |-> 0, first |-> "-", seen |-> 0, left |-> {}]

\* The _seq of the aggregate's STATE record, a never-written aggregate counting 0.
DbSeq(tbl, id) == Get(tbl, id, NewBatchState).sequence

HasState(tbl, id) == Get(tbl, id, NewBatchState).err # "ErrStateNotFound"

PartitionOf(tbl, id) ==
    {r \in tbl : r.pk = attributeValueString(createPartitionKey(id))}

\* The inputs of Process: every list of at most MaxEvents events, and a long one.
RECURSIVE Lists(_)
Lists(n) ==
    IF n = 0 THEN {<<>>}
    ELSE Lists(n - 1)
         \cup {Append(l, BatchInput(x)) : l \in {m \in Lists(n - 1) : Len(m) = n - 1},
                                          x \in Numbers}

ShortLists == Lists(MaxEvents)

LongList == [i \in 1..LongLen |-> BatchInput(1 + (i % 2))]

\* The inputs of a direct Put: the repaired state of the processor test.
PutStates == {[BatchSize |-> 2, BatchesEmitted |-> 0, Values |-> <<6, 5, 4>>]}

PutInbound == {<<>>, <<BatchInput(1)>>}

PutOutbound == {<<>>, <<BatchOutput(<<6, 5, 4>>)>>}

\* Two outbound events of one commit.
TwoOutbound == <<BatchOutput(<<1, 2>>), BatchOutput(<<2, 1>>)>>

NoCall ==
    [op |-> "none", p |-> "-", id |-> <<>>, atSequence |-> 0,
     state |-> NewBatchState, inbound |-> <<>>, outbound |-> <<>>,
     before |-> {}, err |-> "nil"]

Init ==
    /\ table = {}
    /\ persist \in BOOLEAN
    /\ procs = [p \in Procs |-> NoProc]
    /\ commits = [id \in Ids |-> <<>>]
    /\ last = NoCall
    /\ bridge = NoBridge

\* What a write that returned err adds to the log of accepted commits.
Committed(id, err, atSequence, inbound, outbound) ==
    IF err = "nil"
    THEN [commits EXCEPT ![id] = Append(@, [seq |-> atSequence + 1,
                                            inbound |-> inbound,
                                            outbound |-> outbound])]
    ELSE commits

\* New making a processor that starts at sequence 1.
NewAtOne(p, id, state) ==
    /\ procs' = IF ~IsPtr(state) THEN procs
                ELSE [procs EXCEPT ![p] =
                        [NoProc EXCEPT !.live = TRUE, !.id = id, !.state = state,
                                       !.sequence = 1, !.by = "New"]]
    /\ last' = [op |-> "New", p |-> p, id |-> id, state |-> state,
                before |-> table,
                err |-> IF IsPtr(state) THEN "nil" ELSE MustBePointer,
                made |-> IsPtr(state)]
    /\ UNCHANGED <<table, persist, commits, bridge>>

\* New making a processor that starts at the sequence the table holds for
\* the aggregate.
NewAtStored(p, id, state) ==
    /\ procs' = IF ~IsPtr(state) THEN procs
                ELSE [procs EXCEPT ![p] =
                        [NoProc EXCEPT !.live = TRUE, !.id = id, !.state = state,
                                       !.sequence = DbSeq(table, id), !.by = "New"]]
    /\ last' = [op |-> "New", p |-> p, id |-> id, state |-> state,
                before |-> table,
                err |-> IF IsPtr(state) THEN "nil" ELSE MustBePointer,
                made |-> IsPtr(state)]
    /\ UNCHANGED <<table, persist, commits, bridge>>

\* func New(store, id, state) (p *Processor, err error).  The caller keeps the
\* processor it had when none is returned; made tells whether one was.
New(p, id, state) ==
    /\ procs' = IF ~IsPtr(state) THEN procs
                ELSE [procs EXCEPT ![p] =
                        [NoProc EXCEPT !.live = TRUE, !.id = id, !.state = state,
                                       !.sequence = 0, !.by = "New"]]
    /\ last' = [op |-> "New", p |-> p, id |-> id, state |-> state,
                before |-> table,
                err |-> IF IsPtr(state) THEN "nil" ELSE MustBePointer,
                made |-> IsPtr(state)]
    /\ UNCHANGED <<table, persist, commits, bridge>>

\* Load keeping the state it read and starting the processor at sequence 0.
LoadResultAtZero(tbl, id, state) ==
    IF ~IsPtr(state)
    THEN [err |-> MustBePointer, sequence |-> 0, state |-> state]
    ELSE [Get(tbl, id, state) EXCEPT !.sequence = 0]

\* What Load returns: the error and, without one, the processor's state and
\* sequence.  Get is not called when the state is not a pointer.
LoadResult(tbl, id, state) ==
    IF ~IsPtr(state)
    THEN [err |-> MustBePointer, sequence |-> 0, state |-> state]
    ELSE Get(tbl, id, state)

\* func Load(store, id, state) (p *Processor, err error)
Load(p, id, state) ==
    \E got \in {LoadResult(table, id, state)} :
        /\ procs' = IF got.err # "nil" THEN procs
                    ELSE [procs EXCEPT ![p] =
                            [NoProc EXCEPT !.live = TRUE, !.id = id,
                                           !.state = got.state,
                                           !.sequence = got.sequence,
                                           !.by = "Load"]]
        /\ last' = [op |-> "Load", p |-> p, id |-> id, state |-> state,
                    before |-> table, err |-> got.err, made |-> got.err = "nil"]
        /\ UNCHANGED <<table, persist, commits, bridge>>

\* Process = Prepare, then Execute unless Prepare failed: [state, outbound,
\* items, err, table].
ProcessCall(tbl, proc, events, persistHistory, requestOk) ==
    LET prepared == Prepare(proc, events, persistHistory)
    IN  IF prepared.err # "nil"
        THEN [state |-> prepared.state, outbound |-> prepared.outbound,
              items |-> <<>>, err |-> prepared.err, table |-> tbl]
        ELSE LET executed == StoreExecute(tbl, prepared.items, requestOk)
             IN  [state |-> prepared.state, outbound |-> prepared.outbound,
                  items |-> prepared.items, err |-> executed.err,
                  table |-> executed.table]

\* The processor's sequence after a Process call that returned err: Process,
\* Prepare and Execute assign nothing to p.sequence.
SequenceAdvanced(proc, err) ==
    IF err = "nil" THEN proc.sequence + 1 ELSE proc.sequence

SequenceAfter(proc, err) == proc.sequence

\* func (p *Processor) Process(events ...InboundEvent) error
Process(p, events, requestOk) ==
    /\ procs[p].live
    /\ procs[p].calls < MaxCalls
    /\ procs[p].sequence < MaxSeq
    /\ \E r \in {ProcessCall(table, procs[p], events, persist, requestOk)} :
        /\ table' = r.table
        /\ procs' = [procs EXCEPT
                        ![p].state = r.state,
                        ![p].sequence = SequenceAfter(procs[p], r.err),
                        ![p].calls = @ + 1,
                        ![p].first = IF procs[p].calls = 0 THEN r.err ELSE @,
                        ![p].seen = IF procs[p].calls = 0
                                    THEN DbSeq(table, procs[p].id) ELSE @,
                        ![p].left = IF procs[p].calls = 0 /\ r.err = "nil"
                                    THEN r.table ELSE @]
        /\ commits' = Committed(procs[p].id, r.err, procs[p].sequence, events,
                                r.outbound)
        /\ last' = [op |-> "Process", p |-> p, id |-> procs[p].id,
                    atSequence |-> procs[p].sequence, state |-> r.state,
                    inbound |-> events, outbound |-> r.outbound,
                    before |-> table, err |-> r.err]
    /\ UNCHANGED <<persist, bridge>>

\* A caller of the store's Put, with any atSequence.
CallPut(id, atSequence, state, inbound, outbound, requestOk) ==
    /\ atSequence < MaxSeq
    /\ \E r \in {Put(table, id, atSequence, state, inbound, outbound, persist,
                     requestOk)} :
        /\ table' = r.table
        /\ commits' = Committed(id, r.err, atSequence, inbound, outbound)
        /\ last' = [op |-> "Put", p |-> "-", id |-> id, atSequence |-> atSequence,
                    state |-> state, inbound |-> inbound, outbound |-> outbound,
                    before |-> table, err |-> r.err]
    /\ UNCHANGED <<persist, procs, bridge>>

DoNew == \E p \in Procs, id \in Ids : New(p, id, NewBatchState)

DoLoad == \E p \in Procs, id \in Ids : Load(p, id, NewBatchState)

\* Every request of these callers reaches the database.
DoProcess == \E p \in Procs, events \in ShortLists : Process(p, events, TRUE)

DoPut == \E id \in Ids, atSequence \in 0..(MaxSeq - 1), state \in PutStates,
            inbound \in PutInbound, outbound \in PutOutbound, requestOk \in BOOLEAN :
                CallPut(id, atSequence, state, inbound, outbound, requestOk)

Next == DoNew \/ DoLoad \/ DoProcess

Spec == Init /\ [][Next]_vars

(***************************************************************************)
(* Callers of the store's Put beside one caller with a processor.          *)
(***************************************************************************)
StoreNew == \E id \in Ids : New("p1", id, NewBatchState)

StoreLoad == \E id \in Ids : Load("p1", id, NewBatchState)

StoreProcess == \E events \in ShortLists : Process("p1", events, TRUE)

NextStore == DoPut \/ StoreNew \/ StoreLoad \/ StoreProcess

SpecStore == Init /\ [][NextStore]_vars

(***************************************************************************)
(* One caller that creates, loads and processes, with the long list among  *)
(* its inputs: the runs the replay and the order of Query are about.       *)
(***************************************************************************)
ReplayNew == \E id \in Ids : New("p1", id, NewBatchState)

ReplayLoad == \E id \in Ids : Load("p1", id, NewBatchState)

ReplayProcess == \E events \in ShortLists \cup {LongList}, requestOk \in BOOLEAN :
                    Process("p1", events, requestOk)

NextReplay == ReplayNew \/ ReplayLoad \/ ReplayProcess

SpecReplay == Init /\ [][NextReplay]_vars

(***************************************************************************)
(* One caller with the slot machine of example/api as its state: the user  *)
(* logic that returns errors.  The caller makes a processor with New and   *)
(* gives it lists of coins and pulls; every request reaches the database.  *)
(***************************************************************************)
SlotInputs == {InsertCoin, PullHandle(TRUE), PullHandle(FALSE)}

RECURSIVE SlotLists(_)
SlotLists(n) ==
    IF n = 0 THEN {<<>>}
    ELSE SlotLists(n - 1)
         \cup {Append(l, e) : l \in {m \in SlotLists(n - 1) : Len(m) = n - 1},
                              e \in SlotInputs}

SlotNew == \E id \in Ids : New("p1", id, NewSlotMachine)

SlotProcess == \E events \in SlotLists(MaxSlotEvents) : Process("p1", events, TRUE)

NextSlot == SlotNew \/ SlotProcess

SpecSlot == Init /\ [][NextSlot]_vars

(***************************************************************************)
(* Callers of the store's Put alone, with the long list among the inbound  *)
(* events of a commit: what Query then reads back.                         *)
(***************************************************************************)
QueryPut == \E id \in Ids, atSequence \in 0..(MaxSeq - 1), state \in PutStates,
                inbound \in PutInbound \cup {LongList},
                outbound \in PutOutbound \cup {TwoOutbound}, requestOk \in BOOLEAN :
                    CallPut(id, atSequence, state, inbound, outbound, requestOk)

NextQuery == QueryPut

SpecQuery == Init /\ [][NextQuery]_vars

(***************************************************************************)
(* Callers of the store's Put with a database that may fail in every way   *)
(* TransactWriteItems can: the request may not get through, and the        *)
(* transaction may be cancelled for an item that another transaction is    *)
(* writing (TransactionConflict) as well as for a condition that failed.   *)
(* A failed transaction writes nothing.                                    *)
(***************************************************************************)
CancellationCodes == {"None", "ConditionalCheckFailed", "TransactionConflict"}

\* The cancellations the database may answer with: one reason per item, at
\* least one of them a failure, ConditionalCheckFailed only for an item
\* whose condition does not hold.
Cancellations(tbl, items) ==
    {[err |-> "TransactionCanceledException", reasons |-> rs, table |-> tbl] :
        rs \in {f \in [1..Len(items) -> CancellationCodes] :
                    /\ \E i \in 1..Len(items) : f[i] # "None"
                    /\ \A i \in 1..Len(items) :
                          f[i] = "ConditionalCheckFailed" => ~ConditionHolds(tbl, items[i])}}

DatabaseAnswers(tbl, items) ==
    {TransactWriteItems(tbl, items)}
    \cup {[err |-> "RequestError", reasons |-> <<>>, table |-> tbl]}
    \cup Cancellations(tbl, items)

AnsweredPut(id, atSequence, state, inbound, outbound, answer) ==
    /\ atSequence < MaxSeq
    /\ table' = answer.table
    /\ commits' = Committed(id, PutError(answer), atSequence, inbound, outbound)
    /\ last' = [op |-> "Put", p |-> "-", id |-> id, atSequence |-> atSequence,
                state |-> state, inbound |-> inbound, outbound |-> outbound,
                before |-> table, answer |-> answer, err |-> PutError(answer)]
    /\ UNCHANGED <<persist, procs, bridge>>

AnswersPut == \E id \in Ids, atSequence \in 0..(MaxSeq - 1), state \in PutStates,
                inbound \in PutInbound, outbound \in PutOutbound :
                \E answer \in DatabaseAnswers(table, PutItems(id, atSequence, state, inbound, outbound, persist)) :
                    AnsweredPut(id, atSequence, state, inbound, outbound, answer)

NextAnswers == AnswersPut

SpecAnswers == Init /\ [][NextAnswers]_vars

(***************************************************************************)
(* Callers of Put and of Process with a database that answers a request   *)
(* with the outcome of the transaction, with a failed request, or with a   *)
(* cancellation for a conflict with another transaction, and that would    *)
(* accept a request sent again: the answer to a second request would be    *)
(* the outcome of the transaction.                                         *)
(***************************************************************************)
FirstAnswers(tbl, items) ==
    {TransactWriteItems(tbl, items),
     [err |-> "RequestError", reasons |-> <<>>, table |-> tbl],
     [err |-> "TransactionCanceledException",
      reasons |-> [i \in 1..Len(items) |-> "TransactionConflict"], table |-> tbl]}

AnswerPairs(tbl, items) ==
    {<<answer, TransactWriteItems(tbl, items)>> : answer \in FirstAnswers(tbl, items)}

RequestsPut(id, atSequence, state, inbound, outbound, answers) ==
    /\ atSequence < MaxSeq
    /\ \E r \in {ExecuteAnswered(answers)} :
        /\ table' = r.table
        /\ commits' = Committed(id, r.err, atSequence, inbound, outbound)
        /\ last' = [op |-> "Put", p |-> "-", id |-> id, atSequence |-> atSequence,
                    state |-> state, inbound |-> inbound, outbound |-> outbound,
                    before |-> table, answer |-> answers[1], err |-> r.err,
                    requests |-> r.requests]
    /\ UNCHANGED <<persist, procs, bridge>>

RequestsProcess(p, events, answers) ==
    /\ procs[p].live
    /\ procs[p].calls < MaxCalls
    /\ procs[p].sequence < MaxSeq
    /\ \E r \in {StoreExecuteAnswered(answers)} :
        LET prepared == Prepare(procs[p], events, persist)
        IN  /\ prepared.err = "nil"
            /\ table' = r.table
            /\ procs' = [procs EXCEPT
                            ![p].state = prepared.state,
                            ![p].sequence = SequenceAfter(procs[p], r.err),
                            ![p].calls = @ + 1,
                            ![p].first = IF procs[p].calls = 0 THEN r.err ELSE @,
                            ![p].seen = IF procs[p].calls = 0
                                        THEN DbSeq(table, procs[p].id) ELSE @,
                            ![p].left = IF procs[p].calls = 0 /\ r.err = "nil"
                                        THEN r.table ELSE @]
            /\ commits' = Committed(procs[p].id, r.err, procs[p].sequence, events,
                                    prepared.outbound)
            /\ last' = [op |-> "Process", p |-> p, id |-> procs[p].id,
                        atSequence |-> procs[p].sequence, state |-> prepared.state,
                        inbound |-> events, outbound |-> prepared.outbound,
                        before |-> table, answer |-> answers[1], err |-> r.err,
                        requests |-> r.requests]
    /\ UNCHANGED <<persist, bridge>>

RequestsNew == \E id \in Ids : New("p1", id, NewBatchState)

RequestsLoad == \E id \in Ids : Load("p1", id, NewBatchState)

RequestsDoPut ==
    \E id \in Ids, atSequence \in 0..(MaxSeq - 1), state \in PutStates :
        \E answers \in AnswerPairs(table, PutItems(id, atSequence, state, <<BatchInput(1)>>, <<>>, persist)) :
            RequestsPut(id, atSequence, state, <<BatchInput(1)>>, <<>>, answers)

RequestsDoProcess ==
    \E events \in ShortLists :
        \E answers \in AnswerPairs(table, Prepare(procs["p1"], events, persist).items) :
            RequestsProcess("p1", events, answers)

NextRequests == RequestsNew \/ RequestsLoad \/ RequestsDoPut \/ RequestsDoProcess

InitRequests ==
    /\ table = {}
    /\ persist = FALSE
    /\ procs = [p \in Procs |-> NoProc]
    /\ commits = [id \in Ids |-> <<>>]
    /\ last = NoCall
    /\ bridge = NoBridge

SpecRequests == InitRequests /\ [][NextRequests]_vars

(***************************************************************************)
(* Single calls on a table that is already there.  The table is shared     *)
(* (the store writes into a table it is given, and Prepare hands the       *)
(* items out so that callers can add records of their own), so a partition *)
(* holds any part of what two commits with history wrote.                  *)
(***************************************************************************)
TheId == CHOOSE id \in Ids : TRUE

WrittenOnce ==
    Put({}, TheId, 0, [NewBatchState EXCEPT !.Values = <<1>>],
        <<BatchInput(1)>>, <<>>, TRUE, TRUE).table

WrittenTwice ==
    Put(WrittenOnce, TheId, 1, [NewBatchState EXCEPT !.BatchesEmitted = 1],
        <<>>, <<BatchOutput(<<1, 2>>)>>, TRUE, TRUE).table

ReadTables == SUBSET WrittenTwice

\* The state argument of a call: a *BatchState or a BatchState.
StateArgs == {NewBatchState, ByValue(NewBatchState)}

StateHistoryReaders == {"noop", "state"}

InitCalls ==
    /\ table \in ReadTables
    /\ persist \in BOOLEAN
    /\ procs = [p \in Procs |-> NoProc]
    /\ commits = [id \in Ids |-> <<>>]
    /\ last = NoCall
    /\ bridge = NoBridge

CallGet(id, state) ==
    /\ last' = [op |-> "Get", p |-> "-", id |-> id, state |-> state,
                before |-> table, err |-> Get(table, id, state).err,
                result |-> Get(table, id, state)]
    /\ UNCHANGED <<table, persist, procs, commits, bridge>>

CallQuery(id, state, inboundEventReader, outboundEventReader) ==
    \E q \in {Query(table, id, state, inboundEventReader, outboundEventReader)} :
        /\ last' = [op |-> "Query", p |-> "-", id |-> id, state |-> state,
                    inboundEventReader |-> inboundEventReader,
                    outboundEventReader |-> outboundEventReader,
                    before |-> table, err |-> q.err, result |-> q]
        /\ UNCHANGED <<table, persist, procs, commits, bridge>>

CallQueryWithHistory(id, state, inboundEventReader, outboundEventReader, stateHistoryReader) ==
    \E q \in {QueryWithHistory(table, id, state, inboundEventReader,
                                outboundEventReader, stateHistoryReader)} :
        /\ last' = [op |-> "QueryWithHistory", p |-> "-", id |-> id,
                    state |-> state,
                    inboundEventReader |-> inboundEventReader,
                    outboundEventReader |-> outboundEventReader,
                    before |-> table, err |-> q.err, result |-> q]
        /\ UNCHANGED <<table, persist, procs, commits, bridge>>

CallsNew == \E id \in Ids, state \in StateArgs : New("p1", id, state)

CallsLoad == \E id \in Ids, state \in StateArgs : Load("p1", id, state)

CallsGet == \E id \in Ids, state \in StateArgs : CallGet(id, state)

CallsQuery ==
    \E id \in Ids, state \in StateArgs,
       inboundEventReader \in SUBSET InboundReaders,
       outboundEventReader \in SUBSET OutboundReaders :
            CallQuery(id, state, inboundEventReader, outboundEventReader)

CallsQueryWithHistory ==
    \E id \in Ids, state \in StateArgs,
       inboundEventReader \in SUBSET InboundReaders,
       outboundEventReader \in SUBSET OutboundReaders,
       stateHistoryReader \in StateHistoryReaders :
            CallQueryWithHistory(id, state, inboundEventReader,
                                 outboundEventReader, stateHistoryReader)

NextCalls ==
    CallsNew \/ CallsLoad \/ CallsGet \/ CallsQuery \/ CallsQueryWithHistory

SpecCalls == InitCalls /\ [][NextCalls]_vars

(***************************************************************************)
(* Stores of several namespaces on one table.  The store's Namespace is a  *)
(* field of the store; here it is the first argument of what Put calls,    *)
(* which are otherwise the definitions above.                              *)
(***************************************************************************)
createPartitionKeyIn(namespace, id) == namespace \o Slash \o id

createRecordIn(namespace, id, sk, sequence, item, recordName) ==
    [body |-> MarshalMap(item),
     namespace |-> attributeValueString(namespace),
     pk |-> attributeValueString(createPartitionKeyIn(namespace, id)),
     seq |-> attributeValueInteger(sequence),
     sk |-> attributeValueString(sk),
     typ |-> attributeValueString(recordName)]

createStateTransactWriteItemIn(namespace, id, atSequence, state, key) ==
    [Item |-> createRecordIn(namespace, id, key, atSequence, state, namespace),
     ConditionExpression |-> CondNotExistsOrSeq,
     ExpressionAttributeValues |-> attributeValueInteger(atSequence - 1)]

\* Put, up to the request: atSequence++ and the items, state first.
PutItemsIn(namespace, id, atSequence, state, inbound, outbound, persistHistory) ==
    LET seq == atSequence + 1
    IN  <<createStateTransactWriteItemIn(namespace, id, seq, state,
                                         createStateRecordSortKey)>>
        \o (IF persistHistory
            THEN <<createStateTransactWriteItemIn(namespace, id, seq, state,
                                                  createVersionedRecordSortKey(seq))>>
            ELSE <<>>)
        \o [i \in 1..Len(inbound) |->
               createPut(createRecordIn(namespace, id,
                                        createInboundRecordSortKey(EventName(inbound[i]),
                                                                   seq, i - 1),
                                        seq, inbound[i], EventName(inbound[i])))]
        \o [i \in 1..Len(outbound) |->
               createPut(createRecordIn(namespace, id,
                                        createOutboundRecordSortKey(EventName(outbound[i]),
                                                                    seq, i - 1),
                                        seq, outbound[i], EventName(outbound[i])))]

PutIn(namespace, tbl, id, atSequence, state, inbound, outbound, persistHistory, requestOk) ==
    ExecuteItems(tbl,
                 PutItemsIn(namespace, id, atSequence, state, inbound, outbound,
                            persistHistory),
                 requestOk)

\* The namespaces "a" and "a/b", and the ids "b/c" and "c".
Namespaces == {<<97>>, <<97, 47, 98>>}

SharedIds == {<<98, 47, 99>>, <<99>>}

Aggregates == Namespaces \X SharedIds

PartitionIn(tbl, aggregate) ==
    {r \in tbl : r.pk = attributeValueString(createPartitionKeyIn(aggregate[1],
                                                                   aggregate[2]))}

InitShared ==
    /\ table = {}
    /\ persist \in BOOLEAN
    /\ procs = [p \in Procs |-> NoProc]
    /\ commits = [aggregate \in Aggregates |-> <<>>]
    /\ last = NoCall
    /\ bridge = NoBridge

\* A caller of Put of the store of the namespace.
SharedPut(namespace, id, atSequence, state, inbound, outbound, requestOk) ==
    /\ atSequence < MaxSeq
    /\ \E r \in {PutIn(namespace, table, id, atSequence, state, inbound, outbound,
                       persist, requestOk)} :
        /\ table' = r.table
        /\ commits' = Committed(<<namespace, id>>, r.err, atSequence, inbound, outbound)
        /\ last' = [op |-> "Put", p |-> "-", namespace |-> namespace, id |-> id,
                    atSequence |-> atSequence, state |-> state, inbound |-> inbound,
                    outbound |-> outbound, before |-> table, err |-> r.err]
    /\ UNCHANGED <<persist, procs, bridge>>

SharedDoPut ==
    \E namespace \in Namespaces, id \in SharedIds, atSequence \in 0..(MaxSeq - 1) :
        \E state \in PutStates, requestOk \in BOOLEAN :
            SharedPut(namespace, id, atSequence, state, <<BatchInput(1)>>, <<>>,
                      requestOk)

NextShared == SharedDoPut

SpecShared == InitShared /\ [][NextShared]_vars

(***************************************************************************)
(* Writers of one aggregate that is already there.  Each writer repeats    *)
(* Load and Process until its Process returns nil, and then stops; every   *)
(* request reaches the database.  pc is where the writer is, start the     *)
(* _seq of the aggregate when the writers began, retries the number of     *)
(* Process calls of the writer that failed, counted up to MaxRetries.      *)
(***************************************************************************)
Writers == {"w1", "w2", "w3"}

NoWriter(start) ==
    [NoProc EXCEPT !.id = TheId] @@ [pc |-> "load", start |-> start, retries |-> 0]

InitWriters ==
    /\ table \in {WrittenOnce, WrittenTwice}
    /\ persist \in BOOLEAN
    /\ procs = [w \in Writers |-> NoWriter(DbSeq(table, TheId))]
    /\ commits = [id \in Ids |-> <<>>]
    /\ last = NoCall
    /\ bridge = NoBridge

\* p, err := stream.Load(store, id, state)
WriterLoad(w) ==
    /\ procs[w].pc = "load"
    /\ \E got \in {LoadResult(table, procs[w].id, NewBatchState)} :
        /\ procs' = IF got.err # "nil" THEN procs
                    ELSE [procs EXCEPT ![w].live = TRUE,
                                       ![w].state = got.state,
                                       ![w].sequence = got.sequence,
                                       ![w].by = "Load",
                                       ![w].pc = "process"]
        /\ last' = [op |-> "Load", p |-> w, id |-> procs[w].id,
                    state |-> NewBatchState, before |-> table, err |-> got.err,
                    made |-> got.err = "nil"]
    /\ UNCHANGED <<table, persist, commits, bridge>>

\* err = p.Process(events...): nil ends the writer, an error sends it back
\* to Load.
WriterProcess(w, events) ==
    /\ procs[w].pc = "process"
    /\ \E r \in {ProcessCall(table, procs[w], events, persist, TRUE)} :
        /\ table' = r.table
        /\ procs' = [procs EXCEPT
                        ![w].state = r.state,
                        ![w].sequence = SequenceAfter(procs[w], r.err),
                        ![w].retries = IF r.err = "nil" \/ @ = MaxRetries THEN @
                                       ELSE @ + 1,
                        ![w].pc = IF r.err = "nil" THEN "done" ELSE "load"]
        /\ commits' = Committed(procs[w].id, r.err, procs[w].sequence, events,
                                r.outbound)
        /\ last' = [op |-> "Process", p |-> w, id |-> procs[w].id,
                    atSequence |-> procs[w].sequence, state |-> r.state,
                    inbound |-> events, outbound |-> r.outbound,
                    before |-> table, err |-> r.err]
    /\ UNCHANGED <<persist, bridge>>

WriterStep(w) == WriterLoad(w) \/ \E events \in ShortLists : WriterProcess(w, events)

WritersLoad == \E w \in Writers : WriterLoad(w)

WritersProcess == \E w \in Writers, events \in ShortLists : WriterProcess(w, events)

NextWriters == WritersLoad \/ WritersProcess

\* Weak fairness of the writer's steps, WF_vars(WriterStep(w)), with
\* ENABLED <<WriterStep(w)>>_vars written out: a writer that has not
\* stopped can always take its next step, and a writer that has cannot.
Scheduled(w) ==
    \/ []<>(procs[w].pc = "done")
    \/ []<><<WriterStep(w)>>_vars

\* Every writer that can take a step is scheduled in the end.
SpecWriters ==
    /\ InitWriters
    /\ [][NextWriters]_vars
    /\ \A w \in Writers : Scheduled(w)

(***************************************************************************)
(* One writer that keeps the state history and commits again and again,    *)
(* each commit at the sequence the one before left, and a reader that      *)
(* calls QueryWithHistory with a reader for the snapshots.  The state of   *)
(* commit n has BatchesEmitted = n, so that a snapshot tells its commit.   *)
(***************************************************************************)
HistoryStates(n) ==
    {[BatchSize |-> 2, BatchesEmitted |-> n, Values |-> values] : values \in {<<>>, <<1>>}}

InitHistory ==
    /\ table = {}
    /\ persist = TRUE
    /\ procs = [p \in Procs |-> NoProc]
    /\ commits = [id \in Ids |-> <<>>]
    /\ last = NoCall
    /\ bridge = NoBridge

HistoryPut(id, atSequence, state, inbound) ==
    /\ atSequence < MaxHistory
    /\ \E r \in {Put(table, id, atSequence, state, inbound, <<>>, persist, TRUE)} :
        /\ table' = r.table
        /\ commits' = Committed(id, r.err, atSequence, inbound, <<>>)
        /\ last' = [op |-> "Put", p |-> "-", id |-> id, atSequence |-> atSequence,
                    state |-> state, inbound |-> inbound, outbound |-> <<>>,
                    before |-> table, err |-> r.err]
    /\ UNCHANGED <<persist, procs, bridge>>

HistoryCommit == \E id \in Ids : \E state \in HistoryStates(DbSeq(table, id) + 1) :
                    HistoryPut(id, DbSeq(table, id), state, <<BatchInput(1)>>)

HistoryQuery == \E id \in Ids :
                    CallQueryWithHistory(id, NewBatchState, InboundReaders, OutboundReaders, "state")

NextHistory == HistoryCommit \/ HistoryQuery

SpecHistory == InitHistory /\ [][NextHistory]_vars

(***************************************************************************)
(* The outbound bridge handling one stream event.  The new images are      *)
(* those of records the store writes (STATE, STATE/<n>, INBOUND, OUTBOUND), *)
(* with details of several sizes around the limit of a batch, and images   *)
(* that lack _pk, _sk or _typ.  The batches are sent by one goroutine      *)
(* each, in any order; PutEvents may return an error or report failed      *)
(* entries.                                                                *)
(***************************************************************************)
AllAttributes == {"_pk", "_sk", "_typ"}

Image(has, sk, typ, detailLen) ==
    [has |-> has, pk |-> createPartitionKey(TheId), sk |-> sk, typ |-> typ, detailLen |-> detailLen]

OutboundSortKey == createOutboundRecordSortKey(S_BatchOutput, 1, 0)

\* The sizes of the details: "{}", and those that make an entry half the
\* limit, one below the limit, the limit, and one above it.
Overhead == Len(eventSourceName) + Len(S_BatchOutput)

DetailLens ==
    {2, (maxBatchSizeKB \div 2) - Overhead, maxBatchSizeKB - Overhead - 1,
     maxBatchSizeKB - Overhead, maxBatchSizeKB - Overhead + 1}

OutboundImages == {Image(AllAttributes, OutboundSortKey, S_BatchOutput, n) : n \in DetailLens}

SmallOutbound == Image(AllAttributes, OutboundSortKey, S_BatchOutput, 2)

OtherImages ==
    {Image(AllAttributes, createStateRecordSortKey, Namespace, 2),
     Image(AllAttributes, createVersionedRecordSortKey(1), Namespace, 2),
     Image(AllAttributes, createInboundRecordSortKey(S_BatchInput, 1, 0), S_BatchInput, 2)}
    \cup {Image(AllAttributes \ {a}, OutboundSortKey, S_BatchOutput, 2) : a \in AllAttributes}

BridgeImages == OutboundImages \cup OtherImages

ShortEvents == UNION {[1..n -> BridgeImages] : n \in 0..MaxRecords}

\* n small outbound records, one of them replaced by any image.
LongEvents ==
    {[i \in 1..n |-> IF i = k THEN x ELSE SmallOutbound] :
        n \in LongCounts, k \in 1..(2 * maxCount + 1), x \in BridgeImages}

BridgeEvents == ShortEvents \cup LongEvents

PutEventsAnswers == {"ok", "error", "failed entries"}

InitBridge ==
    /\ table = {}
    /\ persist = FALSE
    /\ procs = [p \in Procs |-> NoProc]
    /\ commits = [id \in Ids |-> <<>>]
    /\ last = NoCall
    /\ bridge = NoBridge

\* HandleRequest sending the batches made before batch gave up.
HandleRequestSendingRest(event) ==
    /\ bridge.pc = "idle"
    /\ LET outboundEvents == OutboundEventsOf(event)
           batches == batch(outboundEvents)
       IN  bridge' = [bridge EXCEPT !.pc = "sending", !.records = event,
                                    !.batches = batches.pages,
                                    !.sent = [i \in 1..Len(batches.pages) |-> "-"]]
    /\ UNCHANGED <<table, persist, procs, commits, last>>

\* HandleRequest from its call to the start of the goroutines.
HandleRequest(event) ==
    /\ bridge.pc = "idle"
    /\ LET outboundEvents == OutboundEventsOf(event)
           batches == batch(outboundEvents)
       IN  bridge' = IF batches.err # "nil"
                     THEN [bridge EXCEPT !.pc = "done", !.records = event,
                                         !.result = "failed to create batches"]
                     ELSE [bridge EXCEPT !.pc = "sending", !.records = event,
                                         !.batches = batches.pages,
                                         !.sent = [i \in 1..Len(batches.pages) |-> "-"]]
    /\ UNCHANGED <<table, persist, procs, commits, last>>

\* The goroutine of batch i: PutEvents and what it returns.
SendBatch(i, answer) ==
    /\ bridge.pc = "sending"
    /\ bridge.sent[i] = "-"
    /\ bridge' = [bridge EXCEPT !.sent[i] = answer, !.calls = @ + 1]
    /\ UNCHANGED <<table, persist, procs, commits, last>>

\* HandleRequest combining the errors without waiting for the goroutines.
HandleRequestReturnWithoutWait ==
    /\ bridge.pc = "sending"
    /\ bridge' = [bridge EXCEPT
                    !.pc = "done",
                    !.result = IF \A i \in 1..Len(bridge.sent) : bridge.sent[i] \in {"ok", "-"}
                               THEN "nil" ELSE "multierr"]
    /\ UNCHANGED <<table, persist, procs, commits, last>>

\* wg.Wait() has every goroutine done; then the errors are combined.
HandleRequestReturn ==
    /\ bridge.pc = "sending"
    /\ \A i \in 1..Len(bridge.sent) : bridge.sent[i] # "-"
    /\ bridge' = [bridge EXCEPT
                    !.pc = "done",
                    !.result = IF \A i \in 1..Len(bridge.sent) : bridge.sent[i] = "ok"
                               THEN "nil" ELSE "multierr"]
    /\ UNCHANGED <<table, persist, procs, commits, last>>

BridgeCall == \E event \in BridgeEvents : HandleRequest(event)

BridgeSend == \E i \in 1..Len(bridge.sent), answer \in PutEventsAnswers : SendBatch(i, answer)

BridgeReturn == HandleRequestReturn

NextBridge == BridgeCall \/ BridgeSend \/ BridgeReturn

SpecBridge == InitBridge /\ [][NextBridge]_vars

(***************************************************************************)
(* Properties.  A call is answered when its request reached the database:  *)
(* it returned nil or ErrOptimisticConcurrency.                            *)
(***************************************************************************)
OCC == "ErrOptimisticConcurrency"

Answered == {"nil", OCC}

IsWrite == last.op \in {"Put", "Process"}

StateKey(id) ==
    <<attributeValueString(createPartitionKey(id)),
      attributeValueString(createStateRecordSortKey)>>

RecordKey(id, sk) ==
    <<attributeValueString(createPartitionKey(id)), attributeValueString(sk)>>

EventRecords(tbl, id) ==
    {r \in PartitionOf(tbl, id) : splitSortKey(r).prefix \in {S_INBOUND, S_OUTBOUND}}

\* The s of a sort key INBOUND/s/i/n or OUTBOUND/s/i/n.
SortKeySeq(r) ==
    LET rest == splitSortKey(r).suffix
        at == {i \in 1..Len(rest) : rest[i] = Slash[1]}
        i == CHOOSE x \in at : \A y \in at : x <= y
    IN  ParseInt(SubSeq(rest, 1, i - 1)).v

RECURSIVE AllInbound(_)
AllInbound(log) ==
    IF log = <<>> THEN <<>> ELSE Head(log).inbound \o AllInbound(Tail(log))

RECURSIVE AllOutbound(_)
AllOutbound(log) ==
    IF log = <<>> THEN <<>> ELSE Head(log).outbound \o AllOutbound(Tail(log))

\* p and q are two processors of one aggregate that hold the same sequence,
\* each has called Process once, and both calls were answered.
BothCalledOnce(p, q) ==
    /\ p # q
    /\ procs[p].live /\ procs[q].live
    /\ procs[p].id = procs[q].id
    /\ procs[p].sequence = procs[q].sequence
    /\ procs[p].calls = 1 /\ procs[q].calls = 1
    /\ procs[p].first \in Answered /\ procs[q].first \in Answered

ExactlyOneSucceeded(p, q) == (procs[p].first = "nil") # (procs[q].first = "nil")

\* C1, amended: when two processors both hold sequence N for an aggregate
\* whose STATE _seq is N (a never-written aggregate counting as 0) when the
\* first of their two Process calls begins, and each calls Process once,
\* exactly one of the two calls succeeds.
C1_ExactlyOneWins ==
    \A p, q \in Procs :
        (/\ BothCalledOnce(p, q)
         /\ \/ procs[p].seen = procs[p].sequence
            \/ procs[q].seen = procs[q].sequence)
        => ExactlyOneSucceeded(p, q)

C1_Raced ==
    \E p, q \in Procs :
        /\ BothCalledOnce(p, q)
        /\ procs[p].sequence = 1
        /\ procs[p].seen = 1
        /\ procs[p].first = "nil"
        /\ procs[q].first = OCC

\* C1 as stated: whenever two processors hold the same sequence for an
\* aggregate and each has called Process once, exactly one call succeeded.
C1_AnyHolders ==
    \A p, q \in Procs : BothCalledOnce(p, q) => ExactlyOneSucceeded(p, q)

\* C2: when of two processors holding the same sequence N one has won and
\* the other calls Process on the table as the winner's commit left it (no
\* third writer in between), that call returns ErrOptimisticConcurrency and
\* changes no record: the table is still what the winner left, with STATE
\* _seq = N + 1.
C2_LoserChangesNothing ==
    \A p, q \in Procs :
        (/\ BothCalledOnce(p, q)
         /\ procs[q].first = "nil"
         /\ last.op = "Process" /\ last.p = p
         /\ last.before = procs[q].left)
        => /\ last.err = OCC
           /\ procs[p].first = OCC
           /\ table = last.before
           /\ table = procs[q].left
           /\ Get(table, procs[p].id, NewBatchState).err = "nil"
           /\ Get(table, procs[p].id, NewBatchState).sequence = procs[p].sequence + 1

C2_LoserReturned ==
    \E p, q \in Procs :
        /\ BothCalledOnce(p, q)
        /\ procs[q].first = "nil"
        /\ last.op = "Process" /\ last.p = p
        /\ last.before = procs[q].left
        /\ last.err = OCC
        /\ last.inbound # <<>>
        /\ procs[p].sequence = 1
        /\ EventRecords(table, procs[p].id) = {}

\* C3: a Put whose atSequence differs from the _seq of the existing STATE
\* record returns ErrOptimisticConcurrency and leaves the table unchanged.
C3_StalePutRejected ==
    (/\ last.op = "Put"
     /\ last.err # "RequestError"
     /\ HasState(last.before, last.id)
     /\ DbSeq(last.before, last.id) # last.atSequence)
    => /\ last.err = OCC
       /\ table = last.before

C3_SecondPutAtZero ==
    /\ last.op = "Put"
    /\ last.atSequence = 0
    /\ DbSeq(last.before, last.id) = 1
    /\ last.err = OCC
    /\ table = last.before

\* C4: every successful write leaves the STATE _seq one above what it was
\* before the write (0 for a never-written aggregate), and the STATE _seq
\* of an aggregate is the number of commits accepted for it.
C4_MonotonicSequence ==
    /\ (IsWrite /\ last.err = "nil")
       => DbSeq(table, last.id) = DbSeq(last.before, last.id) + 1
    /\ \A id \in Ids : DbSeq(table, id) = Len(commits[id])

\* C5: a write that failed left the table as it was (an aggregate without a
\* STATE record still has none); a write that succeeded left the new STATE,
\* the STATE/<seq> snapshot when history is kept, and one record per inbound
\* and per outbound event, and changed nothing else.
C5_AllOrNothing ==
    IsWrite =>
        IF last.err # "nil"
        THEN /\ table = last.before
             /\ ~HasState(last.before, last.id) => ~HasState(table, last.id)
        ELSE LET n == last.atSequence + 1
                 id == last.id
             IN  /\ \E r \in ItemsAt(table, StateKey(id)) :
                        /\ getRecordSequenceNumber(r).v = n
                        /\ UnmarshalState(r.body).v = last.state
                 /\ persist =>
                        \E r \in ItemsAt(table,
                                         RecordKey(id, createVersionedRecordSortKey(n))) :
                            UnmarshalState(r.body).v = last.state
                 /\ \A i \in 1..Len(last.inbound) :
                        \E r \in ItemsAt(table,
                                         RecordKey(id, createInboundRecordSortKey(
                                             EventName(last.inbound[i]), n, i - 1))) :
                            UnmarshalBatchInput(r.body).v = last.inbound[i]
                 /\ \A i \in 1..Len(last.outbound) :
                        \E r \in ItemsAt(table,
                                         RecordKey(id, createOutboundRecordSortKey(
                                             EventName(last.outbound[i]), n, i - 1))) :
                            UnmarshalBatchOutput(r.body).v = last.outbound[i]
                 /\ Cardinality(table \ last.before)
                        = 1 + (IF persist THEN 1 ELSE 0)
                            + Len(last.inbound) + Len(last.outbound)
                 /\ last.before \ table \subseteq ItemsAt(last.before, StateKey(id))

C5_FailedWithEvents ==
    /\ last.op = "Put"
    /\ last.err = OCC
    /\ last.inbound # <<>>
    /\ last.outbound # <<>>
    /\ HasState(table, last.id)
    /\ EventRecords(table, last.id) = {}

\* C6: Process leaves the processor's sequence as it was; a second Process
\* on a processor whose first Process succeeded returns
\* ErrOptimisticConcurrency and changes nothing; the first Process on a
\* processor made by Load, with nothing committed since, succeeds.
C6_SequenceNotAdvanced ==
    /\ (last.op = "Process" /\ last.err = "nil")
       => procs[last.p].sequence = last.atSequence
    /\ (/\ last.op = "Process"
        /\ procs[last.p].calls = 2
        /\ procs[last.p].first = "nil"
        /\ last.err # "RequestError")
       => /\ last.err = OCC
          /\ table = last.before
    /\ (/\ last.op = "Process"
        /\ procs[last.p].by = "Load"
        /\ procs[last.p].calls = 1
        /\ DbSeq(last.before, last.id) = last.atSequence
        /\ last.err # "RequestError")
       => last.err = "nil"

C6_SecondProcessFailed ==
    /\ last.op = "Process"
    /\ procs[last.p].calls = 2
    /\ procs[last.p].first = "nil"
    /\ procs[last.p].by = "Load"
    /\ last.err = OCC
    /\ table = last.before

\* C7: an answered write at the current STATE _seq, or on a never-written
\* aggregate, succeeds: none of its STATE/<seq>, INBOUND and OUTBOUND keys
\* is the key of an existing record, and ErrOptimisticConcurrency is
\* returned only when the STATE record's _seq differs from atSequence.
C7_NoFalseConflict ==
    (IsWrite /\ last.err # "RequestError") =>
        LET current == \/ ~HasState(last.before, last.id)
                       \/ DbSeq(last.before, last.id) = last.atSequence
            items == PutItems(last.id, last.atSequence, last.state, last.inbound,
                              last.outbound, persist)
        IN  /\ current => last.err = "nil"
            /\ current => \A i \in 2..Len(items) :
                              ItemsAt(last.before, KeyOf(items[i].Item)) = {}
            /\ last.err = OCC => /\ HasState(last.before, last.id)
                                 /\ DbSeq(last.before, last.id) # last.atSequence

C7_SameNamesAgain ==
    /\ IsWrite
    /\ last.err = "nil"
    /\ last.atSequence = 1
    /\ DbSeq(last.before, last.id) = 1
    /\ last.inbound # <<>>
    /\ persist
    /\ \E r \in EventRecords(last.before, last.id) :
            /\ splitSortKey(r).prefix = S_INBOUND
            /\ getRecordType(r).v = EventName(last.inbound[1])

\* C8: Query returns the inbound events, and the outbound events, of the
\* accepted commits in commit order and, inside a commit, in idx order.
C8_QueryInCommitOrder ==
    \A id \in Ids :
        LET q == Query(table, id, NewBatchState, InboundReaders, OutboundReaders)
        IN  q.err = "nil" => /\ q.inbound = AllInbound(commits[id])
                             /\ q.outbound = AllOutbound(commits[id])

\* C9: feeding the inbound events Query returns, in the returned order,
\* through a new BatchState yields the stored state and the stored outbound
\* events.
C9_Replayable ==
    \A id \in Ids :
        LET q == Query(table, id, NewBatchState, InboundReaders, OutboundReaders)
            run == RunEvents(NewBatchState, q.inbound, <<>>)
        IN  q.err = "nil" => /\ run.state = q.state
                             /\ run.outbound = q.outbound

\* C10: every INBOUND/s/i/n and OUTBOUND/s/i/n record has s at most the _seq
\* of the STATE record of its partition, and that STATE record exists.
C10_EventsNotAhead ==
    \A id \in Ids :
        \A r \in EventRecords(table, id) :
            /\ HasState(table, id)
            /\ SortKeySeq(r) <= DbSeq(table, id)

C10_OlderEvents ==
    \E id \in Ids :
        /\ DbSeq(table, id) = 2
        /\ \E r \in EventRecords(table, id) : SortKeySeq(r) = 1
        /\ \E r \in EventRecords(table, id) : SortKeySeq(r) = 2

\* The i of a sort key INBOUND/s/i/n or OUTBOUND/s/i/n.
SortKeyIdx(r) ==
    LET rest == splitSortKey(r).suffix
        at == {i \in 1..Len(rest) : rest[i] = Slash[1]}
        i == CHOOSE x \in at : \A y \in at : x <= y
        j == CHOOSE x \in at \ {i} : \A y \in at \ {i} : x <= y
    IN  ParseInt(SubSeq(rest, i + 1, j - 1)).v

RecordsOf(tbl, id, prefix, s) ==
    {r \in EventRecords(tbl, id) : splitSortKey(r).prefix = prefix /\ SortKeySeq(r) = s}

\* C11: for every accepted commit, the INBOUND records with its sequence
\* have the idx values 0 .. k-1, each once, k being the number of inbound
\* events of the commit; the same for its OUTBOUND records; and there are no
\* event records of any other sequence.
C11_IdxDense ==
    \A id \in Ids :
        /\ \A n \in 1..Len(commits[id]) :
              LET c == commits[id][n]
                  ins == RecordsOf(table, id, S_INBOUND, c.seq)
                  outs == RecordsOf(table, id, S_OUTBOUND, c.seq)
              IN  /\ {SortKeyIdx(r) : r \in ins} = 0..(Len(c.inbound) - 1)
                  /\ Cardinality(ins) = Len(c.inbound)
                  /\ {SortKeyIdx(r) : r \in outs} = 0..(Len(c.outbound) - 1)
                  /\ Cardinality(outs) = Len(c.outbound)
        /\ \A r \in EventRecords(table, id) :
              \E n \in 1..Len(commits[id]) : commits[id][n].seq = SortKeySeq(r)

C11_ManyEvents ==
    \E id \in Ids :
        /\ Len(commits[id]) = 2
        /\ Cardinality(RecordsOf(table, id, S_INBOUND, 1)) = LongLen
        /\ \E r \in RecordsOf(table, id, S_INBOUND, 1) : SortKeyIdx(r) = LongLen - 1
        /\ Cardinality(RecordsOf(table, id, S_OUTBOUND, 2)) = 2
        /\ Cardinality(RecordsOf(table, id, S_INBOUND, 2)) = 1

\* The STATE/<n> rows of a partition, and the n of one.
SnapshotRows(tbl, id) ==
    {r \in PartitionOf(tbl, id) :
        splitSortKey(r).prefix = S_STATE /\ splitSortKey(r).suffix # <<>>}

SnapshotNumber(r) == ParseInt(splitSortKey(r).suffix).v

\* The commits accepted for id are the commits 1, 2, .. of a new aggregate.
Successive(id) == \A n \in 1..Len(commits[id]) : commits[id][n].seq = n

\* C12: with PersistStateHistory, after k successive commits on a new
\* aggregate the snapshot rows are exactly STATE/1 .. STATE/k, each with
\* _seq equal to its number; the row a commit writes holds the state of that
\* commit and the older rows stay as they were; and there is one STATE
\* record, with _seq = k and the state of STATE/k.
C12_SnapshotRows ==
    \A id \in Ids :
        (persist /\ Successive(id)) =>
            LET k == Len(commits[id])
                rows == SnapshotRows(table, id)
            IN  /\ {SnapshotNumber(r) : r \in rows} = 1..k
                /\ Cardinality(rows) = k
                /\ \A r \in rows : getRecordSequenceNumber(r).v = SnapshotNumber(r)
                /\ k > 0 =>
                      /\ Cardinality(ItemsAt(table, StateKey(id))) = 1
                      /\ \A st \in ItemsAt(table, StateKey(id)) :
                            /\ getRecordSequenceNumber(st).v = k
                            /\ \E r \in rows : /\ SnapshotNumber(r) = k
                                                /\ r.body = st.body
                /\ (IsWrite /\ last.err = "nil" /\ last.id = id) =>
                      /\ \E r \in rows :
                            /\ SnapshotNumber(r) = last.atSequence + 1
                            /\ UnmarshalState(r.body).v = last.state
                      /\ SnapshotRows(last.before, id) \subseteq rows

C12_TwoSnapshots ==
    \E id \in Ids :
        /\ persist
        /\ Successive(id)
        /\ Len(commits[id]) = 2
        /\ \E r1, r2 \in SnapshotRows(table, id) :
              /\ SnapshotNumber(r1) = 1
              /\ SnapshotNumber(r2) = 2
              /\ r1.body # r2.body

\* C13: an answered Put at the current sequence with no inbound events
\* succeeds and advances the STATE _seq by 1; it writes no INBOUND record
\* and one OUTBOUND record per outbound event (none when that list is empty
\* too), and leaves the older event records alone.
C13_EmptyLists ==
    (/\ last.op = "Put"
     /\ last.err # "RequestError"
     /\ last.inbound = <<>>
     /\ DbSeq(last.before, last.id) = last.atSequence)
    => LET new == EventRecords(table, last.id) \ EventRecords(last.before, last.id)
       IN  /\ last.err = "nil"
           /\ DbSeq(table, last.id) = last.atSequence + 1
           /\ EventRecords(last.before, last.id) \subseteq EventRecords(table, last.id)
           /\ Cardinality(new) = Len(last.outbound)
           /\ \A i \in 1..Len(last.outbound) :
                 \E r \in new :
                     /\ splitSortKey(r).prefix = S_OUTBOUND
                     /\ SortKeySeq(r) = last.atSequence + 1
                     /\ SortKeyIdx(r) = i - 1
                     /\ UnmarshalBatchOutput(r.body).v = last.outbound[i]

C13_BothKinds ==
    \E id \in Ids :
        /\ last.op = "Put" /\ last.err = "nil" /\ last.id = id
        /\ Len(commits[id]) = 2
        /\ commits[id][1].inbound = <<>> /\ commits[id][1].outbound # <<>>
        /\ commits[id][2].inbound = <<>> /\ commits[id][2].outbound = <<>>
        /\ DbSeq(table, id) = 2
        /\ Cardinality(EventRecords(table, id)) = 1

\* What a caller's *BatchState may hold when it is passed to Get.
GetInto == {NewBatchState} \cup PutStates

\* C14: after a successful write of state s at atSequence N, Get returns
\* sequence N + 1 and decodes a state equal to s, whatever the state it
\* decodes into held before.
C14_GetReflectsCommit ==
    (IsWrite /\ last.err = "nil") =>
        \A into \in GetInto :
            LET got == Get(table, last.id, into)
            IN  /\ got.err = "nil"
                /\ got.sequence = last.atSequence + 1
                /\ got.state = last.state

C14_SecondCommitRead ==
    /\ last.op = "Put"
    /\ last.err = "nil"
    /\ last.atSequence = 1
    /\ Get(last.before, last.id, NewBatchState).sequence = 1
    /\ Get(last.before, last.id, NewBatchState).state # last.state
    /\ Get(table, last.id, NewBatchState).sequence = 2
    /\ Get(table, last.id, NewBatchState).state = last.state

\* C15: Get with a pointer on a partition without a STATE record returns
\* ErrStateNotFound (and only then), and Load on such a partition returns
\* that error and no processor.
C15_StateNotFound ==
    /\ (last.op = "Get" /\ IsPtr(last.state)) =>
          (last.err = "ErrStateNotFound"
              <=> ItemsAt(last.before, StateKey(last.id)) = {})
    /\ (/\ last.op = "Load"
        /\ IsPtr(last.state)
        /\ ItemsAt(last.before, StateKey(last.id)) = {})
       => /\ last.err = "ErrStateNotFound"
          /\ ~last.made
          /\ procs[last.p].by # "Load"

C15_LoadOfMissing ==
    /\ last.op = "Load"
    /\ IsPtr(last.state)
    /\ ItemsAt(last.before, StateKey(last.id)) = {}
    /\ last.err = "ErrStateNotFound"
    /\ ~last.made

IsQuery == last.op \in {"Query", "QueryWithHistory"}

\* Every event record of the partition has a reader for its _typ.
Readable(tbl, id, inboundEventReader, outboundEventReader) ==
    \A r \in EventRecords(tbl, id) :
        getRecordType(r).v \in (IF splitSortKey(r).prefix = S_INBOUND
                                THEN inboundEventReader
                                ELSE outboundEventReader)

\* C16: Query and QueryWithHistory, given a pointer, return ErrStateNotFound
\* when the partition has no record with sort key STATE and every record
\* of it could be read; they never succeed without that record, and they
\* return ErrStateNotFound only when it is missing.
C16_QueryStateNotFound ==
    (IsQuery /\ IsPtr(last.state)) =>
        LET missing == ItemsAt(last.before, StateKey(last.id)) = {}
        IN  /\ (/\ missing
                /\ Readable(last.before, last.id, last.inboundEventReader,
                            last.outboundEventReader))
               => last.err = "ErrStateNotFound"
            /\ missing => last.err # "nil"
            /\ last.err = "ErrStateNotFound" => missing

C16_SnapshotWithoutState ==
    /\ last.op = "QueryWithHistory"
    /\ IsPtr(last.state)
    /\ ItemsAt(last.before, StateKey(last.id)) = {}
    /\ SnapshotRows(last.before, last.id) # {}
    /\ last.result.inbound # <<>>
    /\ last.result.outbound # <<>>
    /\ last.err = "ErrStateNotFound"

\* The event records of a partition that are read before r, and the ones
\* that cannot be read with the given readers.
ReadBefore(tbl, id, r) ==
    {x \in EventRecords(tbl, id) : StrLess(x.sk.S, r.sk.S)}

Unreadable(tbl, id, inboundEventReader, outboundEventReader) ==
    {r \in EventRecords(tbl, id) :
        getRecordType(r).v \notin (IF splitSortKey(r).prefix = S_INBOUND
                                   THEN inboundEventReader
                                   ELSE outboundEventReader)}

\* C17: when the partition holds an INBOUND or OUTBOUND record whose _typ
\* has no registered reader, Query and QueryWithHistory return the
\* "no reader" error of the first such record and stop there: they return
\* the events read before it only, and never success.
C17_NoReaderIsFatal ==
    (IsQuery /\ IsPtr(last.state)) =>
        LET bad == Unreadable(last.before, last.id, last.inboundEventReader,
                              last.outboundEventReader)
        IN  \A r \in bad :
                (\A x \in bad \ {r} : StrLess(r.sk.S, x.sk.S)) =>
                    /\ last.err = IF splitSortKey(r).prefix = S_INBOUND
                                  THEN "inbound event: no reader"
                                  ELSE "outbound event: no reader"
                    /\ Len(last.result.inbound) + Len(last.result.outbound)
                          = Cardinality(ReadBefore(last.before, last.id, r))
                    /\ last.result.sequence = 0

C17_StoppedAtOutbound ==
    /\ last.op = "Query"
    /\ IsPtr(last.state)
    /\ last.before = WrittenTwice
    /\ last.inboundEventReader = InboundReaders
    /\ last.outboundEventReader = {}
    /\ last.err = "outbound event: no reader"
    /\ Len(last.result.inbound) = 1
    /\ last.result.outbound = <<>>

\* C18: a processor made by New holds sequence 0, and its first successful
\* Process on a never-written aggregate leaves STATE with _seq = 1 and one
\* record, with seq 1, for each event of that commit.
C18_NewStartsAtZero ==
    /\ (last.op = "New" /\ last.made) => procs[last.p].sequence = 0
    /\ (/\ last.op = "Process"
        /\ last.err = "nil"
        /\ procs[last.p].by = "New"
        /\ PartitionOf(last.before, last.id) = {})
       => /\ last.atSequence = 0
          /\ DbSeq(table, last.id) = 1
          /\ \A r \in EventRecords(table, last.id) :
                /\ SortKeySeq(r) = 1
                /\ getRecordSequenceNumber(r).v = 1
          /\ Cardinality(EventRecords(table, last.id))
                = Len(last.inbound) + Len(last.outbound)

C18_FirstCommit ==
    /\ last.op = "Process"
    /\ last.err = "nil"
    /\ procs[last.p].by = "New"
    /\ PartitionOf(last.before, last.id) = {}
    /\ Len(last.inbound) = LongLen
    /\ Len(last.outbound) > 1
    /\ DbSeq(table, last.id) = 1

\* C19: New, Load, Get, Query and QueryWithHistory given a state that is
\* not a pointer return the "must be a pointer" error and nothing the
\* database holds: no processor, sequence 0, no events, the state argument
\* as it was, whatever the table contains.
C19_StateMustBePointer ==
    (/\ last.op \in {"New", "Load", "Get", "Query", "QueryWithHistory"}
     /\ last.state = ByValue(NewBatchState))
    => /\ last.err = MustBePointer
       /\ table = last.before
       /\ last.op \in {"New", "Load"} => ~last.made
       /\ last.op \in {"Get", "Query", "QueryWithHistory"} =>
             /\ last.result.sequence = 0
             /\ last.result.state = last.state
       /\ IsQuery =>
             /\ last.result.inbound = <<>>
             /\ last.result.outbound = <<>>
             /\ last.result.stateHistory = <<>>

C19_ByValueOnWritten ==
    /\ last.op = "QueryWithHistory"
    /\ last.state = ByValue(NewBatchState)
    /\ last.before = WrittenTwice
    /\ last.inboundEventReader = InboundReaders
    /\ last.outboundEventReader = OutboundReaders
    /\ last.err = MustBePointer
    /\ last.result.inbound = <<>>

\* C20: when TransactWriteItems fails with anything but a cancellation
\* that carries a ConditionalCheckFailed reason, Put returns that very
\* error, which is never ErrOptimisticConcurrency, and nothing is written.
C20_OtherErrorsUnchanged ==
    (/\ last.op = "Put"
     /\ last.answer.err # "nil"
     /\ ~(/\ last.answer.err = "TransactionCanceledException"
          /\ \E i \in 1..Len(last.answer.reasons) :
                 last.answer.reasons[i] = "ConditionalCheckFailed"))
    => /\ last.err = last.answer.err
       /\ last.err # OCC
       /\ table = last.before

C20_ConflictOnly ==
    /\ last.op = "Put"
    /\ last.answer.err = "TransactionCanceledException"
    /\ \E i \in 1..Len(last.answer.reasons) : last.answer.reasons[i] = "TransactionConflict"
    /\ \A i \in 1..Len(last.answer.reasons) : last.answer.reasons[i] # "ConditionalCheckFailed"
    /\ DbSeq(last.before, last.id) > last.atSequence
    /\ last.err = "TransactionCanceledException"

\* C21: a Process call whose database write fails or is cancelled returns
\* the error of the write and leaves the processor's state object and
\* sequence as they were before the call.
C21_FailedProcessKeepsState ==
    [][(/\ last'.op = "Process"
        /\ last'.err # "nil")
       => /\ procs'[last'.p].state = procs[last'.p].state
          /\ procs'[last'.p].sequence = procs[last'.p].sequence]_vars

\* C22: every INBOUND, OUTBOUND and STATE/<n> record that was in the table
\* before a call is in the table, unchanged, after it; the only record a
\* call replaces is the STATE record of the partition it writes.
C22_RecordsImmutable ==
    /\ \A r \in last.before :
          r.sk # attributeValueString(createStateRecordSortKey) => r \in table
    /\ \A r \in last.before \ table :
          /\ IsWrite /\ last.err = "nil"
          /\ KeyOf(r) = StateKey(last.id)

C22_StateOverwritten ==
    /\ IsWrite
    /\ last.err = "nil"
    /\ \E r \in last.before : r \notin table
    /\ EventRecords(last.before, last.id) # {}
    /\ SnapshotRows(last.before, last.id) # {}
    /\ EventRecords(table, last.id) # EventRecords(last.before, last.id)

\* out(e1) ++ ... ++ out(en): what the user logic returns for the events,
\* one after the other, starting from the given state.
RECURSIVE Outs(_, _)
Outs(state, events) ==
    IF events = <<>> THEN <<>>
    ELSE LET r == StateProcess(state, Head(events))
         IN  r.outbound \o Outs(r.state, Tail(events))

\* C23: the commit written by a successful Process(e1..en) at sequence s
\* holds, for each i, e_i under INBOUND/s/<i-1>/<name>, and for each j the
\* j-th event of out(e1) ++ ... ++ out(en) under OUTBOUND/s/<j-1>/<name>,
\* and no other event record of sequence s.
C23_CommitHoldsEvents ==
    [][(/\ last'.op = "Process"
        /\ last'.err = "nil")
       => LET id == procs[last'.p].id
              s == procs[last'.p].sequence + 1
              events == last'.inbound
              outs == Outs(procs[last'.p].state, events)
              ins == RecordsOf(table', id, S_INBOUND, s)
              outrecs == RecordsOf(table', id, S_OUTBOUND, s)
          IN  /\ \A i \in 1..Len(events) :
                    \E r \in ins :
                        /\ KeyOf(r) = RecordKey(id, createInboundRecordSortKey(EventName(events[i]), s, i - 1))
                        /\ UnmarshalBatchInput(r.body) = [ok |-> TRUE, v |-> events[i]]
              /\ Cardinality(ins) = Len(events)
              /\ \A j \in 1..Len(outs) :
                    \E r \in outrecs :
                        /\ KeyOf(r) = RecordKey(id, createOutboundRecordSortKey(EventName(outs[j]), s, j - 1))
                        /\ UnmarshalBatchOutput(r.body) = [ok |-> TRUE, v |-> outs[j]]
              /\ Cardinality(outrecs) = Len(outs)]_vars

C23_ManyInOrder ==
    /\ last.op = "Process"
    /\ last.err = "nil"
    /\ Len(last.inbound) = LongLen
    /\ Len(last.outbound) > 2
    /\ last.outbound[1] # last.outbound[2]
    /\ Cardinality(RecordsOf(table, last.id, S_OUTBOUND, last.atSequence + 1)) = Len(last.outbound)

\* C24: QueryWithHistory returns one snapshot per commit, the snapshot of
\* commit k at position k, and as sequence the _seq of the STATE record.
C24_HistoryInCommitOrder ==
    (/\ last.op = "QueryWithHistory"
     /\ last.err = "nil")
    => LET q == last.result
           n == Len(commits[last.id])
       IN  /\ \E r \in table : /\ KeyOf(r) = StateKey(last.id)
                                /\ getRecordSequenceNumber(r).v = q.sequence
           /\ q.sequence = n
           /\ Len(q.stateHistory) = n
           /\ \A k \in 1..n :
                 /\ q.stateHistory[k].BatchesEmitted = k
                 /\ \E r \in table :
                       /\ KeyOf(r) = RecordKey(last.id, createVersionedRecordSortKey(k))
                       /\ UnmarshalState(r.body).v = q.stateHistory[k]

\* The entries the bridge makes of the records it was given.
BridgeEntries == OutboundEventsOf(bridge.records)

BridgeCalled == bridge.pc \in {"sending", "done"}

RECURSIVE SumSize(_)
SumSize(entries) ==
    IF entries = <<>> THEN 0 ELSE getSize(Head(entries)) + SumSize(Tail(entries))

\* C25: when every entry has a computed size of at most 256 KiB, batch
\* returns no error and every batch has at most 10 entries and a cumulative
\* computed size of at most 256 KiB.
C25_BatchesWithinLimits ==
    (/\ BridgeCalled
     /\ \A i \in 1..Len(BridgeEntries) : getSize(BridgeEntries[i]) <= 256 * 1024)
    => /\ bridge.result # "failed to create batches"
       /\ \A b \in 1..Len(bridge.batches) :
             /\ Len(bridge.batches[b]) <= 10
             /\ SumSize(bridge.batches[b]) <= 256 * 1024

C25_FullAndHeavyBatches ==
    /\ BridgeCalled
    /\ Len(bridge.batches) > 2
    /\ \E b \in 1..Len(bridge.batches) : Len(bridge.batches[b]) = 10
    /\ \E b \in 1..Len(bridge.batches) : SumSize(bridge.batches[b]) = 256 * 1024

\* C26: when one entry, wherever it is in the list, has a computed size
\* above 256 KiB, HandleRequest returns the batching error and PutEvents
\* is called for no batch.
C26_OversizeSendsNothing ==
    (/\ BridgeCalled
     /\ \E i \in 1..Len(BridgeEntries) : getSize(BridgeEntries[i]) > 256 * 1024)
    => /\ bridge.pc = "done"
       /\ bridge.result = "failed to create batches"
       /\ bridge.calls = 0
       /\ \A b \in 1..Len(bridge.sent) : bridge.sent[b] = "-"

C26_OversizeAfterFullBatch ==
    /\ bridge.pc = "done"
    /\ bridge.result = "failed to create batches"
    /\ \E i \in 1..Len(BridgeEntries) :
          /\ i > 10
          /\ getSize(BridgeEntries[i]) > 256 * 1024
          /\ \A j \in 1..(i - 1) : getSize(BridgeEntries[j]) < 256 * 1024
    /\ bridge.calls = 0

\* The records a bus entry is due for: those with _pk, _sk and _typ whose
\* _sk begins with OUTBOUND/.
IsOutboundRecord(r) ==
    /\ {"_pk", "_sk", "_typ"} \subseteq r.has
    /\ Len(r.sk) >= 9
    /\ SubSeq(r.sk, 1, 9) = <<79, 85, 84, 66, 79, 85, 78, 68, 47>>

RECURSIVE OutboundRecords(_)
OutboundRecords(records) ==
    IF records = <<>> THEN <<>>
    ELSE (IF IsOutboundRecord(Head(records)) THEN <<Head(records)>> ELSE <<>>)
         \o OutboundRecords(Tail(records))

RECURSIVE Flatten(_)
Flatten(pages) == IF pages = <<>> THEN <<>> ELSE Head(pages) \o Flatten(Tail(pages))

\* C27: the entries HandleRequest hands to PutEvents are, in order, one
\* per record whose new image has _pk, _typ and an _sk beginning with
\* OUTBOUND/, with that record's _typ as detail-type, the configured source
\* and bus, and the record's detail; no entry is made of an INBOUND, STATE
\* or STATE/<n> record.  When HandleRequest returns nil, every one of them
\* was sent.
C27_OnlyOutboundPublished ==
    (BridgeCalled /\ bridge.result # "failed to create batches")
    => LET due == OutboundRecords(bridge.records)
           entries == Flatten(bridge.batches)
       IN  /\ Len(entries) = Len(due)
           /\ \A i \in 1..Len(due) :
                 /\ entries[i].DetailType = due[i].typ
                 /\ entries[i].Source = eventSourceName
                 /\ entries[i].EventBusName = eventBusName
                 /\ entries[i].Detail = [len |-> due[i].detailLen]
           /\ bridge.result = "nil" =>
                 /\ bridge.calls = Len(bridge.batches)
                 /\ \A b \in 1..Len(bridge.batches) : bridge.sent[b] = "ok"

C27_MixedRecordsPublished ==
    /\ bridge.pc = "done"
    /\ bridge.result = "nil"
    /\ Len(bridge.records) = 11
    /\ \E i \in 1..Len(bridge.records) : bridge.records[i].sk = S_STATE
    /\ Len(Flatten(bridge.batches)) = 10

\* C28: when HandleRequest has returned after batching, PutEvents was
\* called once for every batch and every call has returned; the result is
\* nil exactly when every call returned no error and no failed entries.
C28_AllSendsAwaited ==
    (bridge.pc = "done" /\ bridge.result # "failed to create batches")
    => /\ bridge.calls = Len(bridge.batches)
       /\ \A b \in 1..Len(bridge.batches) : bridge.sent[b] # "-"
       /\ bridge.result = "nil" <=> \A b \in 1..Len(bridge.batches) : bridge.sent[b] = "ok"
       /\ bridge.result \in {"nil", "multierr"}

C28_OneOfThreeFailed ==
    /\ bridge.pc = "done"
    /\ Len(bridge.batches) = 3
    /\ bridge.sent[1] = "ok"
    /\ bridge.sent[2] = "failed entries"
    /\ bridge.sent[3] = "ok"
    /\ bridge.result = "multierr"

\* C29: a call of Put or of Process sends at most one transactional write
\* request, whatever the database answers: what the call returns and what
\* the table holds afterwards are those of the answer to the first request.
C29_NoRetry ==
    IsWrite
    => /\ last.requests <= 1
       /\ last.answer.err = "nil" => last.err = "nil"
       /\ last.answer.err # "nil" => last.err # "nil" /\ table = last.before
       /\ table = last.answer.table

C29_FailedOnceWouldSucceed ==
    /\ last.op = "Process"
    /\ last.answer.err = "RequestError"
    /\ last.err = "RequestError"
    /\ last.requests = 1
    /\ Len(last.inbound) > 0
    /\ DbSeq(last.before, last.id) = last.atSequence
    /\ table = last.before

\* What the user logic does with a list of events when it is called for one
\* event after the other and for none after the first that it refuses: the
\* state it leaves, the number of the refused event (0 when none is) and the
\* error of that event.
RECURSIVE UpToRefusal(_, _, _)
UpToRefusal(state, events, i) ==
    IF events = <<>> THEN [state |-> state, i |-> 0, err |-> "nil"]
    ELSE LET r == SlotMachineProcess(state, Head(events))
         IN  IF r.err # "nil" THEN [state |-> r.state, i |-> i, err |-> r.err]
             ELSE UpToRefusal(r.state, Tail(events), i + 1)

\* C30: when the user logic returns an error for the i-th event of a
\* Process call, the call returns that error, the user logic has been
\* called for no later event (the state object is what the events up to
\* the i-th left), and nothing is written: the table, and with it _seq, and
\* the commits are what they were.
C30_UserErrorStopsProcess ==
    [][(/\ last'.op = "Process"
        /\ UpToRefusal(procs[last'.p].state, last'.inbound, 1).i > 0)
       => LET u == UpToRefusal(procs[last'.p].state, last'.inbound, 1)
          IN  /\ last'.err = u.err
              /\ procs'[last'.p].state = u.state
              /\ table' = table
              /\ commits' = commits
              /\ DbSeq(table', last'.id) = DbSeq(table, last'.id)]_vars

C30_SecondEventRefused ==
    /\ last.op = "Process"
    /\ last.err = ErrCannotInsertCoin
    /\ Len(last.inbound) = 3
    /\ last.inbound[1] = InsertCoin
    /\ last.inbound[2] = InsertCoin
    /\ last.inbound[3] = PullHandle(TRUE)
    /\ procs[last.p].state.IsCoinInSlot
    /\ procs[last.p].state.Games = 1
    /\ table # {}
    /\ table = last.before
    /\ DbSeq(table, last.id) = 1

\* C31: a Process of a processor made by New, for an aggregate that has a
\* STATE record when the call is made, returns ErrOptimisticConcurrency and
\* leaves the table as it was: no record is added, changed or removed.
C31_NewNeverOverwrites ==
    (/\ last.op = "Process"
     /\ procs[last.p].by = "New"
     /\ HasState(last.before, last.id))
    => /\ last.err = "ErrOptimisticConcurrency"
       /\ table = last.before

C31_NewOnWrittenAggregate ==
    /\ last.op = "Process"
    /\ procs[last.p].by = "New"
    /\ last.inbound # <<>>
    /\ DbSeq(last.before, last.id) = 2
    /\ EventRecords(last.before, last.id) # {}
    /\ last.err = "ErrOptimisticConcurrency"
    /\ table = last.before

WritersDone ==
    /\ \A w \in Writers : procs[w].pc = "done"
    /\ \A w \in Writers :
          DbSeq(table, TheId) = procs[w].start + Cardinality(Writers)
    /\ Len(commits[TheId]) = Cardinality(Writers)

\* C32: k writers of an aggregate that is there, each repeating Load and
\* Process until its Process returns nil: under fair scheduling every
\* writer succeeds in the end, each once, and the STATE record's _seq is
\* then, and stays, the _seq the writers found plus k.
C32_WritersAllSucceed == <>[]WritersDone

C32_DoneAfterRetries ==
    /\ WritersDone
    /\ \E w \in Writers : procs[w].retries = 2
    /\ \E w \in Writers : procs[w].retries = 0

\* C33: a Put for one (namespace, id) leaves the records of every other
\* (namespace, id) as they were, and is rejected as a conflict of versions
\* only when that (namespace, id) has a commit of its own.
C33_AggregatesIsolated ==
    (last.op = "Put") =>
        /\ \A other \in Aggregates \ {<<last.namespace, last.id>>} :
              PartitionIn(table, other) = PartitionIn(last.before, other)
        /\ last.err = "ErrOptimisticConcurrency"
              => commits[<<last.namespace, last.id>>] # <<>>

\* The records a call wrote: those of the table that were not there, or
\* were different, before it.
Written == table \ last.before

\* The name at the end of a sort key INBOUND/s/i/n or OUTBOUND/s/i/n.
SortKeyName(r) ==
    LET rest == splitSortKey(r).suffix
        at == {i \in 1..Len(rest) : rest[i] = Slash[1]}
        i == CHOOSE x \in at : \A y \in at : x <= y
        j == CHOOSE x \in at \ {i} : \A y \in at \ {i} : x <= y
    IN  SubSeq(rest, j + 1, Len(rest))

\* The events of the call whose record r is: the inbound events for an
\* INBOUND record, the outbound events for an OUTBOUND record.
EventsOfKind(r) ==
    IF splitSortKey(r).prefix = S_INBOUND THEN last.inbound ELSE last.outbound

\* C34: every record a successful Put(id, atSequence, ..) wrote has
\* _pk = <namespace>/<id>, _namespace = the namespace and _seq =
\* atSequence + 1, which is the number in its sort key (STATE/<n>,
\* INBOUND/<n>/.., OUTBOUND/<n>/..); its _typ is the namespace on the STATE
\* and STATE/<n> records and the EventName of its event on the INBOUND and
\* OUTBOUND records.
C34_RecordColumns ==
    (last.op = "Put" /\ last.err = "nil") =>
        \A r \in Written :
            /\ r.pk = [S |-> Namespace \o <<47>> \o last.id]
            /\ r.namespace = [S |-> Namespace]
            /\ r.seq = [N |-> FormatInt(last.atSequence + 1)]
            /\ splitSortKey(r).prefix \in {S_STATE, S_INBOUND, S_OUTBOUND}
            /\ splitSortKey(r).prefix = S_STATE =>
                  /\ r.typ = [S |-> Namespace]
                  /\ r.sk.S # S_STATE => SnapshotNumber(r) = last.atSequence + 1
            /\ splitSortKey(r).prefix # S_STATE =>
                  /\ SortKeySeq(r) = last.atSequence + 1
                  /\ SortKeyIdx(r) + 1 \in 1..Len(EventsOfKind(r))
                  /\ r.typ = [S |-> EventName(EventsOfKind(r)[SortKeyIdx(r) + 1])]
                  /\ r.typ = [S |-> SortKeyName(r)]

C34_AllKindsWritten ==
    /\ last.op = "Put"
    /\ last.err = "nil"
    /\ last.atSequence = 1
    /\ \E r \in Written : r.sk.S = S_STATE
    /\ \E r \in Written : splitSortKey(r).prefix = S_STATE /\ r.sk.S # S_STATE
    /\ \E r \in Written : splitSortKey(r).prefix = S_INBOUND
    /\ \E r \in Written : splitSortKey(r).prefix = S_OUTBOUND

\* C35: when batch returns without error, the batches it returns, one
\* after the other, are the list it was given: every entry once, in its
\* place.
C35_BatchingKeepsEntries ==
    (BridgeCalled /\ bridge.result # "failed to create batches")
    => Flatten(bridge.batches) = BridgeEntries

C35_ThreeBatchesOfLongList ==
    /\ BridgeCalled
    /\ bridge.result # "failed to create batches"
    /\ Len(BridgeEntries) = 21
    /\ Len(bridge.batches) > 3
    /\ \E i \in 1..Len(BridgeEntries) : getSize(BridgeEntries[i]) > 128 * 1024
    /\ Flatten(bridge.batches) = BridgeEntries

\* C36: when every entry has a computed size of at most 256 KiB, no batch
\* that batch returns is empty, and PutEvents is called with no empty
\* batch.
C36_NoEmptyBatch ==
    (/\ BridgeCalled
     /\ \A i \in 1..Len(BridgeEntries) : getSize(BridgeEntries[i]) <= 256 * 1024)
    => \A b \in 1..Len(bridge.batches) : bridge.batches[b] # <<>>

\* What Query returns, of what QueryWithHistory returns.
QueryPart(q) ==
    [sequence |-> q.sequence, state |-> q.state, inbound |-> q.inbound,
     outbound |-> q.outbound, err |-> q.err]

\* C37: on every partition, with or without STATE/<n> rows, Query returns
\* the sequence, state, inbound events, outbound events and error that
\* QueryWithHistory returns with a history reader that does not fail, and
\* the ones it returns on the partition without its STATE/<n> rows.
C37_QueryIsQueryWithHistory ==
    (last.op = "Query") =>
        /\ QueryPart(last.result)
              = QueryPart(QueryWithHistory(last.before, last.id, last.state,
                                           last.inboundEventReader,
                                           last.outboundEventReader, "state"))
        /\ QueryPart(last.result)
              = QueryPart(Query(last.before \ SnapshotRows(last.before, last.id),
                                last.id, last.state, last.inboundEventReader,
                                last.outboundEventReader))
        /\ Len(last.result.inbound) + Len(last.result.outbound)
              <= Cardinality(EventRecords(last.before, last.id))

C37_QueryOverHistoryRows ==
    /\ last.op = "Query"
    /\ IsPtr(last.state)
    /\ last.before = WrittenTwice
    /\ Cardinality(SnapshotRows(last.before, last.id)) = 2
    /\ last.err = "nil"
    /\ last.result.sequence = 2
    /\ Len(last.result.inbound) = 1
    /\ Len(last.result.outbound) = 1
    /\ last.result.stateHistory = <<>>

====
